---- MODULE Spec2Model ----
(***************************************************************************)
(* A model of the TOON codec of sstraus/toon_go: the primitive codec, the  *)
(* writer, the array and object encoders, the line preprocessor and the    *)
(* indentation-driven structural decoder.                                  *)
(*                                                                         *)
(* Text is a sequence of characters; a character is a one-character        *)
(* string, or one of the named characters below for the bytes that have    *)
(* no string escape.  The codec's functions are operators that compute     *)
(* what the Go code computes; a Go function that also moves the line       *)
(* cursor sp.pos returns the new cursor in its result.                     *)
(***************************************************************************)
EXTENDS Integers, Sequences, FiniteSets, TLC

VARIABLES pc, hostValue, encOpts, decOpts, doc, encOut, decOut, sp, normalized,
          calls, pkg

vars == <<pc, hostValue, encOpts, decOpts, doc, encOut, decOut, sp, normalized,
          calls, pkg>>

-----------------------------------------------------------------------------
(* Characters and the Go string functions the codec uses.                  *)

NUL == "<NUL>"
VT == "<VT>"
BS == "<BS>"

Digits == <<"0", "1", "2", "3", "4", "5", "6", "7", "8", "9">>
LowerLetters == <<"a", "b", "c", "d", "e", "f", "g", "h", "i", "j", "k", "l", "m",
                  "n", "o", "p", "q", "r", "s", "t", "u", "v", "w", "x", "y", "z">>
UpperLetters == <<"A", "B", "C", "D", "E", "F", "G", "H", "I", "J", "K", "L", "M",
                  "N", "O", "P", "Q", "R", "S", "T", "U", "V", "W", "X", "Y", "Z">>

Range(f) == {f[i] : i \in DOMAIN f}

isDigit(ch) == ch \in Range(Digits)

isLetter(ch) == ch \in Range(LowerLetters) \cup Range(UpperLetters)

DigitVal(ch) == (CHOOSE i \in 1..10 : Digits[i] = ch) - 1

ToLower(ch) ==
    IF ch \in Range(UpperLetters)
    THEN LowerLetters[CHOOSE i \in 1..26 : UpperLetters[i] = ch]
    ELSE ch

HasPrefix(s, p) == Len(s) >= Len(p) /\ SubSeq(s, 1, Len(p)) = p

HasSuffix(s, p) == Len(s) >= Len(p) /\ SubSeq(s, Len(s) - Len(p) + 1, Len(s)) = p

Contains(s, sub) ==
    \E i \in 1..(Len(s) - Len(sub) + 1) : SubSeq(s, i, i + Len(sub) - 1) = sub

\* strings.Index for a one-character separator: the position before the
\* first occurrence (0-based), or -1
Index(s, ch) ==
    IF \E i \in 1..Len(s) : s[i] = ch
    THEN (CHOOSE i \in 1..Len(s) : s[i] = ch /\ \A j \in 1..(i - 1) : s[j] # ch) - 1
    ELSE -1

TrimPrefix(s, p) == IF HasPrefix(s, p) THEN SubSeq(s, Len(p) + 1, Len(s)) ELSE s

\* the number of leading, and of trailing, characters of s that are in cut
LeadingIn(s, cut) ==
    IF \A i \in 1..Len(s) : s[i] \in cut THEN Len(s)
    ELSE (CHOOSE i \in 1..Len(s) : s[i] \notin cut /\ \A j \in 1..(i - 1) : s[j] \in cut) - 1

TrailingIn(s, cut) ==
    IF \A i \in 1..Len(s) : s[i] \in cut THEN Len(s)
    ELSE Len(s) - (CHOOSE i \in 1..Len(s) :
                      s[i] \notin cut /\ \A j \in (i + 1)..Len(s) : s[j] \in cut)

TrimLeftSet(s, cut) == SubSeq(s, LeadingIn(s, cut) + 1, Len(s))

TrimRightSet(s, cut) == SubSeq(s, 1, Len(s) - TrailingIn(s, cut))

SpaceChars == {" ", "\t", "\n", "\r", "\f", VT}

TrimSpace(s) == TrimRightSet(TrimLeftSet(s, SpaceChars), SpaceChars)

\* strings.Split(s, sep) for a one-character separator
Split(s, ch) ==
    LET seps == {i \in 1..Len(s) : s[i] = ch}
        \* the position of the k-th separator; 0 and Len(s) + 1 bound the text
        sepAt(k) == IF k = 0 THEN 0
                    ELSE IF k > Cardinality(seps) THEN Len(s) + 1
                    ELSE CHOOSE i \in seps : Cardinality({j \in seps : j < i}) = k - 1
    IN  [k \in 1..(Cardinality(seps) + 1) |-> SubSeq(s, sepAt(k - 1) + 1, sepAt(k) - 1)]

\* strings.SplitN(s, sep, 2)
SplitN2(s, ch) ==
    LET i == Index(s, ch)
    IN  IF i = -1 THEN <<s>>
        ELSE <<SubSeq(s, 1, i), SubSeq(s, i + 2, Len(s))>>

RECURSIVE Join(_, _)
Join(parts, sep) ==
    IF parts = <<>> THEN <<>>
    ELSE IF Len(parts) = 1 THEN parts[1]
    ELSE parts[1] \o sep \o Join(Tail(parts), sep)

\* strings.ReplaceAll(s, old, new) for a one-character old
RECURSIVE ReplaceAll(_, _, _)
ReplaceAll(s, old, new) ==
    IF s = <<>> THEN <<>>
    ELSE (IF Head(s) = old THEN new ELSE <<Head(s)>>) \o ReplaceAll(Tail(s), old, new)

RECURSIVE Repeat(_, _)
Repeat(s, n) == IF n <= 0 THEN <<>> ELSE s \o Repeat(s, n - 1)

\* lexicographic s > t on strings, bytes ordered by the table below
CharOrder == <<NUL, BS, "\t", "\n", VT, "\f", "\r", " ", "!", "\"", "#", "(", ")", "+", ",", "-", ".">>
             \o Digits \o <<":">> \o UpperLetters \o <<"[", "\\", "]", "_">>
             \o LowerLetters \o <<"{", "|", "}">>

Ord(ch) == CHOOSE i \in 1..Len(CharOrder) : CharOrder[i] = ch

RECURSIVE StrGreater(_, _)
StrGreater(s, t) ==
    IF s = <<>> THEN FALSE
    ELSE IF t = <<>> THEN TRUE
    ELSE IF Head(s) = Head(t) THEN StrGreater(Tail(s), Tail(t))
    ELSE Ord(Head(s)) > Ord(Head(t))

-----------------------------------------------------------------------------
(* The value model.  A host value and a decoded value are tagged records.  *)

Null == [t |-> "null"]
VBool(b) == [t |-> "bool", b |-> b]
VInt(n) == [t |-> "int", n |-> n]
\* the float64 num / 10^sc
VFloat(num, sc) == [t |-> "float", num |-> num, sc |-> sc]
VNaN == [t |-> "nan"]
\* the float64 negative zero
VNegZero == [t |-> "negzero"]
\* a 64-bit integer away from zero is written hi * 2^63 + n with n small:
\* math.MaxInt64 is VInt64(1, -1), math.MinInt64 is VInt64(-1, 0)
VInt64(hi, n) == IF hi = 0 THEN VInt(n) ELSE [t |-> "int", hi |-> hi, n |-> n]
\* a host value of an unsigned integer type, of value hi * 2^63 + n:
\* math.MaxUint64 is VUint(2, -1)
VUint(hi, n) == [t |-> "uint", hi |-> hi, n |-> n]
\* a float64 of the whole value hi * 2^63 + n
VBigFloat(hi, n) == [t |-> "float", hi |-> hi, num |-> n, sc |-> 0]
\* a host value of a type normalize does not support (a struct, a channel)
VOther == [t |-> "other"]
VInf(neg) == [t |-> "inf", neg |-> neg]
VStr(s) == [t |-> "str", s |-> s]
VSeq(e) == [t |-> "seq", e |-> e]
\* map[string]Value: a function from the keys present to their values
VMap(m) == [t |-> "map", m |-> m]
\* OrderedMap: keys in insertion order, and the values map
VOMap(keys, m) == [t |-> "omap", keys |-> keys, om |-> m]

EmptyMap == [k \in {} |-> Null]

MapSet(m, k, v) == [x \in (DOMAIN m) \cup {k} |-> IF x = k THEN v ELSE m[x]]

-----------------------------------------------------------------------------
(* TOON format constants.                                                  *)

listItemPrefix == <<"-", " ">>
nullLiteral == <<"n", "u", "l", "l">>
trueLiteral == <<"t", "r", "u", "e">>
falseLiteral == <<"f", "a", "l", "s", "e">>
structureChars == {":", "[", "]", "{", "}", "(", ")", "\"", "\\"}
controlChars == {"\n", "\r", "\t", BS, "\f"}
defaultIndent == 2
defaultDelimiter == <<",">>
\* the guard "len(nestedLines) > 100" of parseListItem
nestedLinesLimit == 100
comma == <<",">>
tab == <<"\t">>
pipe == <<"|">>
validDelimiters == {comma, tab, pipe}
\* the package-level variables of the codec
PackageVars ==
    [validDelimiters |-> validDelimiters, structureChars |-> structureChars,
     controlChars |-> controlChars]
\* no call of the package is in progress
NoCalls == <<>>

-----------------------------------------------------------------------------
(* strconv: integers and floats.                                           *)

\* the value x under the name of F's parameter: x is written, and evaluated, once
Bind(x, F(_)) == F(x)

\* model integers carry at most MaxDigits decimal digits
MaxDigits == 6

RECURSIVE DigitsVal(_, _)
DigitsVal(s, acc) ==
    IF s = <<>> THEN acc ELSE DigitsVal(Tail(s), acc * 10 + DigitVal(Head(s)))

AllDigits(s) == s # <<>> /\ \A i \in 1..Len(s) : isDigit(s[i])

StripSign(s) == IF s # <<>> /\ Head(s) \in {"+", "-"} THEN Tail(s) ELSE s

\* strconv.ParseInt(s, 10, 64)
ParseInt(s) ==
    LET body == StripSign(s)
        neg == s # <<>> /\ Head(s) = "-"
    IN  IF AllDigits(body) /\ Len(TrimLeftSet(body, {"0"})) <= MaxDigits
        THEN [ok |-> TRUE, n |-> IF neg THEN 0 - DigitsVal(body, 0) ELSE DigitsVal(body, 0)]
        ELSE [ok |-> FALSE, n |-> 0]

RECURSIVE FormatNat(_)
FormatNat(n) ==
    IF n < 10 THEN <<Digits[n + 1]>> ELSE FormatNat(n \div 10) \o <<Digits[(n % 10) + 1]>>

\* strconv.FormatInt(i, 10)
FormatInt(n) == IF n < 0 THEN <<"-">> \o FormatNat(0 - n) ELSE FormatNat(n)

RECURSIVE Pow10(_)
Pow10(k) == IF k <= 0 THEN 1 ELSE 10 * Pow10(k - 1)

\* the float num / 10^sc with the trailing zeros of its fraction dropped
RECURSIVE CanonFloat(_, _)
CanonFloat(num, sc) ==
    IF sc > 0 /\ num % 10 = 0 THEN CanonFloat(num \div 10, sc - 1) ELSE VFloat(num, sc)

\* strconv.ParseFloat(s, 64): decimal syntax with optional fraction and
\* exponent, and the special values inf, infinity, nan in any case.
\* floatValue: the value of the digits ipart.fpart with the exponent ebody
floatValue(neg, ipart, fpart, eneg, ebody) ==
    LET mantOK == /\ ipart \o fpart # <<>>
                  /\ \A i \in 1..Len(ipart) : isDigit(ipart[i])
                  /\ \A i \in 1..Len(fpart) : isDigit(fpart[i])
        expOK == AllDigits(ebody) /\ Len(ebody) <= 1
        e == IF eneg THEN 0 - DigitsVal(ebody, 0) ELSE DigitsVal(ebody, 0)
        m == DigitsVal(ipart \o fpart, 0)
        sc == Len(fpart) - e
        mag == IF sc >= 0 THEN CanonFloat(m, sc) ELSE VFloat(m * Pow10(0 - sc), 0)
    IN  IF mantOK /\ expOK /\ Len(ipart \o fpart) + (IF e > 0 THEN e ELSE 0) <= MaxDigits
        THEN [ok |-> TRUE, f |-> [mag EXCEPT !.num = IF neg THEN 0 - @ ELSE @]]
        ELSE [ok |-> FALSE, f |-> VNaN]

\* the mantissa split at its '.', the exponent at its sign
floatMantissa(neg, mant, expo) ==
    LET dpos == Index(mant, ".")
    IN  floatValue(neg,
                   IF dpos = -1 THEN mant ELSE SubSeq(mant, 1, dpos),
                   IF dpos = -1 THEN <<>> ELSE SubSeq(mant, dpos + 2, Len(mant)),
                   expo # <<>> /\ Head(expo) = "-",
                   StripSign(expo))

\* body is s without its sign, low is body in lower case
floatBody(neg, body, low) ==
    LET epos == Index(low, "e")
    IN  IF low \in {<<"i", "n", "f">>, <<"i", "n", "f", "i", "n", "i", "t", "y">>}
        THEN [ok |-> TRUE, f |-> VInf(neg)]
        ELSE IF low = <<"n", "a", "n">> THEN [ok |-> TRUE, f |-> VNaN]
        ELSE floatMantissa(neg,
                           IF epos = -1 THEN body ELSE SubSeq(body, 1, epos),
                           IF epos = -1 THEN <<"0">> ELSE SubSeq(body, epos + 2, Len(body)))

\* a sign is accepted before inf and infinity, never before nan
ParseFloat(s) ==
    IF s # <<>> /\ Head(s) \in {"+", "-"}
       /\ [i \in 1..(Len(s) - 1) |-> ToLower(s[i + 1])] = <<"n", "a", "n">>
    THEN [ok |-> FALSE, f |-> VNaN]
    ELSE floatBody(s # <<>> /\ Head(s) = "-",
                   StripSign(s),
                   [i \in 1..Len(StripSign(s)) |-> ToLower(StripSign(s)[i])])

\* strconv.FormatFloat(f, 'f', -1, 64) of a float that is not whole
FormatFloat(f) ==
    LET a == IF f.num < 0 THEN 0 - f.num ELSE f.num
        p == Pow10(f.sc)
        frac == FormatNat(a % p)
    IN  (IF f.num < 0 THEN <<"-">> ELSE <<>>) \o FormatNat(a \div p) \o <<".">>
        \o Repeat(<<"0">>, f.sc - Len(frac)) \o frac

-----------------------------------------------------------------------------
(* Primitive codec: quoting, escaping, number formatting, scalar parsing.  *)

hasLeadingTrailingSpaces(s) == HasPrefix(s, <<" ">>) \/ HasSuffix(s, <<" ">>)

isReservedLiteral(s) == s = trueLiteral \/ s = falseLiteral \/ s = nullLiteral

containsStructureChars(s) == \E i \in 1..Len(s) : s[i] \in structureChars

containsControlChars(s) == \E i \in 1..Len(s) : s[i] \in controlChars

looksLikeNumber(s) ==
    IF Len(s) > 1 /\ s[1] = "0" /\ isDigit(s[2]) THEN TRUE
    ELSE ParseFloat(s).ok

needsQuoting(s, delimiter) ==
    IF s = <<>> THEN TRUE
    ELSE \/ hasLeadingTrailingSpaces(s)
         \/ isReservedLiteral(s)
         \/ looksLikeNumber(s)
         \/ containsStructureChars(s)
         \/ Contains(s, delimiter)
         \/ containsControlChars(s)
         \/ HasPrefix(s, <<"-">>)

escapeString(s) ==
    LET r1 == ReplaceAll(s, "\\", <<"\\", "\\">>)
        r2 == ReplaceAll(r1, "\"", <<"\\", "\"">>)
        r3 == ReplaceAll(r2, "\t", <<"\\", "t">>)
        r4 == ReplaceAll(r3, "\n", <<"\\", "n">>)
    IN  ReplaceAll(r4, "\r", <<"\\", "r">>)

encodeString(s, delimiter) ==
    IF needsQuoting(s, delimiter) THEN <<"\"">> \o escapeString(s) \o <<"\"">> ELSE s

\* a float is whole when its scale is 0; model integers are all in int64 range
encodeFloat(f) ==
    IF f.t \in {"nan", "inf"} THEN nullLiteral
    ELSE IF f.sc = 0 THEN FormatInt(f.num)
    ELSE FormatFloat(f)

encodePrimitive(v, delimiter) ==
    CASE v.t = "null" -> nullLiteral
      [] v.t = "bool" -> IF v.b THEN trueLiteral ELSE falseLiteral
      [] v.t = "str" -> encodeString(v.s, delimiter)
      [] v.t = "int" -> FormatInt(v.n)
      [] OTHER -> encodeFloat(v)

isValidFirstChar(ch) == isLetter(ch) \/ ch = "_"

isValidKeyChar(ch) == isLetter(ch) \/ isDigit(ch) \/ ch = "_" \/ ch = "."

safeKey(k) ==
    /\ k # <<>>
    /\ isValidFirstChar(k[1])
    /\ \A i \in 2..Len(k) : isValidKeyChar(k[i])

encodeKey(k) == IF safeKey(k) THEN k ELSE <<"\"">> \o escapeString(k) \o <<"\"">>

\* a result of the decoder: err is "" or the kind of the DecodeError
Ok(v) == [err |-> "", v |-> v]
Err(kind) == [err |-> kind, v |-> Null]

RECURSIVE unescapeLoop(_, _, _)
unescapeLoop(s, i, acc) ==
    IF i > Len(s) THEN [err |-> "", s |-> acc]
    ELSE IF s[i] = "\\"
    THEN IF i + 1 > Len(s) THEN [err |-> "unterminated", s |-> <<>>]
         ELSE CASE s[i + 1] = "\\" -> unescapeLoop(s, i + 2, Append(acc, "\\"))
                [] s[i + 1] = "\"" -> unescapeLoop(s, i + 2, Append(acc, "\""))
                [] s[i + 1] = "n" -> unescapeLoop(s, i + 2, Append(acc, "\n"))
                [] s[i + 1] = "r" -> unescapeLoop(s, i + 2, Append(acc, "\r"))
                [] s[i + 1] = "t" -> unescapeLoop(s, i + 2, Append(acc, "\t"))
                [] OTHER -> [err |-> "escape", s |-> <<>>]
    ELSE unescapeLoop(s, i + 1, Append(acc, s[i]))

validateAndUnescape(s) ==
    LET r == unescapeLoop(s, 1, <<>>)
        trailingBackslashes == Len(s) - Len(TrimRightSet(s, {"\\"}))
    IN  IF r.err # "" THEN r
        ELSE IF trailingBackslashes % 2 = 1 THEN [err |-> "unterminated", s |-> <<>>]
        ELSE r

parseNumber(s) ==
    IF Len(s) > 1 /\ s[1] = "0" /\ isDigit(s[2]) THEN Err("not a number")
    ELSE Bind(ParseInt(s),
              LAMBDA i :
                IF i.ok THEN Ok(VInt(i.n))
                ELSE Bind(ParseFloat(s),
                          LAMBDA f : IF f.ok THEN Ok(f.f) ELSE Err("not a number")))

parseValue(raw) ==
    LET s == TrimSpace(raw)
    IN  IF s = <<>> THEN Ok(VStr(<<>>))
        ELSE IF s = nullLiteral THEN Ok(Null)
        ELSE IF s = trueLiteral THEN Ok(VBool(TRUE))
        ELSE IF s = falseLiteral THEN Ok(VBool(FALSE))
        ELSE IF HasPrefix(s, <<"\"">>)
        THEN IF ~HasSuffix(s, <<"\"">>) \/ Len(s) < 2 THEN Err("unterminated")
             ELSE LET u == validateAndUnescape(SubSeq(s, 2, Len(s) - 1))
                  IN  IF u.err # "" THEN Err(u.err) ELSE Ok(VStr(u.s))
        ELSE Bind(parseNumber(s), LAMBDA n : IF n.err = "" THEN n ELSE Ok(VStr(s)))

-----------------------------------------------------------------------------
(* Value predicates and key helpers of the encoder.                        *)

FoldLeft(Op(_, _), base, s) ==
    LET it[i \in 0..Len(s)] == IF i = 0 THEN base ELSE Op(it[i - 1], s[i])
    IN  it[Len(s)]

RECURSIVE SetToSeq(_)
SetToSeq(S) ==
    IF S = {} THEN <<>>
    ELSE LET x == CHOOSE x \in S : TRUE IN <<x>> \o SetToSeq(S \ {x})

RECURSIVE sortStrings(_)
sortStrings(s) ==
    IF s = <<>> THEN <<>>
    ELSE LET i == CHOOSE i \in 1..Len(s) : \A j \in 1..Len(s) : ~StrGreater(s[i], s[j])
         IN  <<s[i]>> \o sortStrings(SubSeq(s, 1, i - 1) \o SubSeq(s, i + 1, Len(s)))

isPrimitive(v) == v.t \in {"null", "bool", "int", "float", "nan", "inf", "str"}

isMap(v) == v.t \in {"map", "omap"}

isList(v) == v.t = "seq"

\* the values of a mapping, plain or order-preserving
Values(v) == IF v.t = "omap" THEN v.om ELSE v.m

\* OrderedMap.Get and a map index: the value, or nil when the key is absent
Get(v, k) == IF k \in DOMAIN Values(v) THEN Values(v)[k] ELSE Null

allPrimitives(v) == isList(v) /\ \A i \in 1..Len(v.e) : isPrimitive(v.e[i])

allMaps(v) == isList(v) /\ \A i \in 1..Len(v.e) : isMap(v.e[i])

getMapKeys(v) ==
    IF v.t = "omap" THEN sortStrings(v.keys)
    ELSE IF v.t = "map" THEN sortStrings(SetToSeq(DOMAIN v.m))
    ELSE <<>>

sameStringSlice(a, b) ==
    /\ Len(a) = Len(b)
    /\ \A i \in 1..Len(b) : b[i] \in Range(a)

sameKeys(v) ==
    IF ~isList(v) THEN FALSE
    ELSE IF Len(v.e) = 0 THEN TRUE
    ELSE IF ~isMap(v.e[1]) THEN FALSE
    ELSE IF Len(getMapKeys(v.e[1])) = 0 THEN TRUE
    ELSE \A i \in 2..Len(v.e) :
            isMap(v.e[i]) /\ sameStringSlice(getMapKeys(v.e[1]), getMapKeys(v.e[i]))

\* mutant of sortKeysWithArraysFirst: a plain sort that ignores the value types
sortKeysIgnoringArrays(keys, v) == sortStrings(keys)

sortKeysWithArraysFirst(keys, v) ==
    sortStrings(SelectSeq(keys, LAMBDA k : isList(v.m[k])))
    \o sortStrings(SelectSeq(keys, LAMBDA k : ~isList(v.m[k])))

detectArrayFormat(v) ==
    IF Len(v.e) = 0 THEN "empty"
    ELSE IF allPrimitives(v) THEN "inline"
    ELSE IF /\ allMaps(v)
            /\ sameKeys(v)
            /\ \A i \in 1..Len(v.e) :
                  \A k \in DOMAIN Values(v.e[i]) : isPrimitive(Values(v.e[i])[k])
    THEN "tabular"
    ELSE "list"

formatLengthMarker(length, marker) == marker \o FormatInt(length)

-----------------------------------------------------------------------------
(* The writer.  trace is a history of the encoder's decisions: which       *)
(* emitter wrote each sequence ("empty", "inline", "tabular", "list"), and *)
(* in which order each mapping's keys were written: as an "object", as a   *)
(* "listitem", or in the "header" of a tabular array.                      *)

\* err is the error the encoder returns in place of the text, "" for none
newWriter(indentSize) ==
    [buf |-> <<>>, indentSize |-> indentSize, trace |-> <<>>, err |-> ""]

push(w, line, depth) ==
    [w EXCEPT !.buf = (IF Len(@) > 0 THEN @ \o <<"\n">> ELSE @)
                      \o Repeat(<<" ">>, depth * w.indentSize) \o line]

pushRaw(w, content) == [w EXCEPT !.buf = @ \o content]

note(w, rec) == [w EXCEPT !.trace = Append(@, rec)]

delimiterMarker(opts) == IF opts.Delimiter # <<",">> THEN opts.Delimiter ELSE <<>>

\* key + "[" + lengthMarker + delimiterMarker + "]"
header(key, length, opts) ==
    key \o <<"[">> \o formatLengthMarker(length, opts.LengthMarker)
    \o delimiterMarker(opts) \o <<"]">>

joined(vals, opts) ==
    Join([i \in 1..Len(vals) |-> encodePrimitive(vals[i], opts.Delimiter)], opts.Delimiter)

-----------------------------------------------------------------------------
(* The encoder.  Every function takes the writer and returns it.           *)

RECURSIVE encodeValue(_, _, _, _, _)
RECURSIVE encodeObject(_, _, _, _, _)
RECURSIVE encodeArray(_, _, _, _, _)
RECURSIVE encodeListItem(_, _, _, _)

encodeValueNil(w, key, depth) ==
    IF key # <<>> THEN push(w, key \o <<":", " ">> \o nullLiteral, depth)
    ELSE push(w, nullLiteral, depth)

encodeValuePrimitive(w, key, v, depth, opts) ==
    LET encoded == encodePrimitive(v, opts.Delimiter)
    IN  IF key # <<>> THEN push(w, key \o <<":", " ">> \o encoded, depth)
        ELSE IF depth = 0 /\ Len(w.buf) = 0 THEN pushRaw(w, encoded)
        ELSE push(w, encoded, depth)

encodeValue(w, key, v, depth, opts) ==
    IF v.t = "null" THEN encodeValueNil(w, key, depth)
    ELSE IF isPrimitive(v) THEN encodeValuePrimitive(w, key, v, depth, opts)
    ELSE IF isMap(v) THEN encodeObject(w, key, v, depth, opts)
    ELSE encodeArray(w, key, v, depth, opts)

encodeObject(w, key, v, depth, opts) ==
    LET keys == IF v.t = "omap" THEN v.keys ELSE sortStrings(SetToSeq(DOMAIN v.m))
        w0 == note(w, [v |-> v, form |-> "object", keys |-> keys])
        w1 == IF key # <<>> THEN push(w0, key \o <<":">>, depth) ELSE w0
        d == IF key # <<>> /\ Len(keys) # 0 THEN depth + 1 ELSE depth
    IN  FoldLeft(LAMBDA acc, k : encodeValue(acc, encodeKey(k), Values(v)[k], d, opts),
                 w1, keys)

encodeEmptyArray(w, key, depth, opts) ==
    push(w, key \o <<"[">> \o formatLengthMarker(0, opts.LengthMarker) \o <<"]", ":">>, depth)

encodeInlineArray(w, key, v, depth, opts) ==
    push(w, header(key, Len(v.e), opts) \o <<":", " ">> \o joined(v.e, opts), depth)

encodeTabularArray(w, key, v, depth, opts) ==
    LET first == v.e[1]
        keys == IF first.t = "omap" THEN first.keys ELSE sortStrings(SetToSeq(DOMAIN first.m))
        fields == Join([i \in 1..Len(keys) |-> encodeKey(keys[i])], opts.Delimiter)
        w1 == push(note(w, [v |-> first, form |-> "header", keys |-> keys]),
                   header(key, Len(v.e), opts) \o <<"{">> \o fields \o <<"}", ":">>, depth)
    IN  FoldLeft(LAMBDA acc, item :
                    push(acc, joined([j \in 1..Len(keys) |-> Get(item, keys[j])], opts),
                         depth + 1),
                 w1, v.e)

encodeListArray(w, key, v, depth, opts) ==
    LET w1 == push(w, header(key, Len(v.e), opts) \o <<":">>, depth)
    IN  FoldLeft(LAMBDA acc, item : encodeListItem(acc, item, depth + 1, opts), w1, v.e)

encodeArray(w, key, v, depth, opts) ==
    LET format == detectArrayFormat(v)
        w1 == note(w, [v |-> v, form |-> format, keys |-> <<>>])
    IN  CASE format = "empty" -> encodeEmptyArray(w1, key, depth, opts)
          [] format = "inline" -> encodeInlineArray(w1, key, v, depth, opts)
          [] format = "tabular" -> encodeTabularArray(w1, key, v, depth, opts)
          [] OTHER -> encodeListArray(w1, key, v, depth, opts)

encodeListItemPrimitive(w, item, depth, opts) ==
    push(w, listItemPrefix \o encodePrimitive(item, opts.Delimiter), depth)

encodeListItemInlineArray(w, item, depth, opts) ==
    push(w, listItemPrefix \o header(<<>>, Len(item.e), opts) \o <<":", " ">>
            \o joined(item.e, opts), depth)

encodeListItemNestedArray(w, item, depth, opts) ==
    LET w1 == push(w, listItemPrefix \o header(<<>>, Len(item.e), opts) \o <<":">>, depth)
    IN  FoldLeft(LAMBDA acc, nested : encodeListItem(acc, nested, depth + 1, opts), w1, item.e)

encodeListItemArray(w, item, depth, opts) ==
    IF Len(item.e) = 0
    THEN push(note(w, [v |-> item, form |-> "empty", keys |-> <<>>]),
              listItemPrefix \o header(<<>>, 0, opts) \o <<":">>, depth)
    ELSE IF allPrimitives(item)
    THEN encodeListItemInlineArray(note(w, [v |-> item, form |-> "inline", keys |-> <<>>]),
                                   item, depth, opts)
    ELSE encodeListItemNestedArray(note(w, [v |-> item, form |-> "list", keys |-> <<>>]),
                                   item, depth, opts)

extractMapKeys(item) ==
    IF item.t = "omap" THEN item.keys
    ELSE sortKeysWithArraysFirst(SetToSeq(DOMAIN item.m), item)

encodeListItemMapFirstKey(w, encodedKey, v, depth, opts) ==
    IF isPrimitive(v)
    THEN push(w, listItemPrefix \o encodedKey \o <<":", " ">>
                 \o encodePrimitive(v, opts.Delimiter), depth)
    ELSE IF isList(v) THEN encodeArray(w, listItemPrefix \o encodedKey, v, depth, opts)
    ELSE encodeValue(push(w, listItemPrefix \o encodedKey \o <<":">>, depth),
                     <<>>, v, depth + 1, opts)

encodeListItemMapSubsequentKey(w, encodedKey, v, depth, alignmentOffset, opts) ==
    LET baseIndent == depth * opts.Indent
        alignedLine == Repeat(<<" ">>, baseIndent + alignmentOffset) \o encodedKey
        effectiveDepth == depth + (alignmentOffset \div opts.Indent)
    IN  IF isPrimitive(v)
        THEN pushRaw(w, <<"\n">> \o alignedLine \o <<":", " ">>
                        \o encodePrimitive(v, opts.Delimiter))
        ELSE IF isList(v) THEN encodeArray(w, alignedLine, v, depth, opts)
        ELSE encodeValue(pushRaw(w, <<"\n">> \o alignedLine \o <<":">>),
                         <<>>, v, effectiveDepth + 1, opts)

encodeListItemMap(w, item, depth, opts) ==
    LET keys == extractMapKeys(item)
        w1 == note(w, [v |-> item, form |-> "listitem", keys |-> keys])
    IN  FoldLeft(LAMBDA acc, idx :
                    IF idx = 1
                    THEN encodeListItemMapFirstKey(acc, encodeKey(keys[idx]),
                                                   Values(item)[keys[idx]], depth, opts)
                    ELSE encodeListItemMapSubsequentKey(acc, encodeKey(keys[idx]),
                                                        Values(item)[keys[idx]], depth, 2, opts),
                 w1, [i \in 1..Len(keys) |-> i])

encodeListItem(w, item, depth, opts) ==
    IF isPrimitive(item) THEN encodeListItemPrimitive(w, item, depth, opts)
    ELSE IF isList(item) THEN encodeListItemArray(w, item, depth, opts)
    ELSE encodeListItemMap(w, item, depth, opts)

encode(v, opts) == encodeValue(newWriter(opts.Indent), <<>>, v, 0, opts)

-----------------------------------------------------------------------------
(* Path flattening (encode_objects.go, encode.go).  A map[string]Value is a *)
(* function from its keys to their values.  Go ranges over a map in no set  *)
(* order: order lists the keys in the order the range visits them.          *)

\* FlattenDepth that getEncodeOptions puts in place of -1
unlimitedFlattenDepth == 9999

\* getEncodeOptions: the defaults applied to the options of the caller
getEncodeOptions(opts) ==
    [opts EXCEPT !.FlattenDepth = IF opts.FlattenPaths /\ @ = -1 THEN unlimitedFlattenDepth ELSE @,
                 !.Indent = IF @ = 0 THEN defaultIndent ELSE @,
                 !.Delimiter = IF @ = <<>> THEN defaultDelimiter ELSE @]

\* convertToNestedMap, convertToMapValue: the map[string]Value of a mapping
convertToNestedMap(value) == Values(value)

buildFullPath(currentPath, key) ==
    IF currentPath = <<>> THEN key ELSE currentPath \o <<".">> \o key

countPathSegments(currentPath) ==
    IF currentPath = <<>> THEN 1 ELSE Len(Split(currentPath, ".")) + 1

\* the paths collectPotentialPaths adds to paths for the map m under prefix
RECURSIVE collectPotentialPaths(_, _)
collectPotentialPaths(m, prefix) ==
    UNION {LET path == buildFullPath(prefix, k)
           IN  {path} \cup (IF isMap(m[k]) THEN collectPotentialPaths(convertToNestedMap(m[k]), path)
                            ELSE {})
           : k \in DOMAIN m}

checkFlattenCollisions(obj, literalKeys) ==
    \E key \in DOMAIN obj :
        /\ isMap(obj[key])
        /\ collectPotentialPaths(convertToNestedMap(obj[key]), key) \cap literalKeys # {}

RECURSIVE containsQuotedKeys(_)
containsQuotedKeys(m) ==
    \E k \in DOMAIN m :
        \/ ~safeKey(k)
        \/ isMap(m[k]) /\ containsQuotedKeys(convertToNestedMap(m[k]))

shouldFlattenValue(value, key, segmentCount, opts) ==
    IF ~isMap(value) THEN FALSE
    ELSE IF ~safeKey(key) THEN FALSE
    ELSE IF opts.FlattenDepth <= 0 \/ segmentCount >= opts.FlattenDepth THEN FALSE
    ELSE ~containsQuotedKeys(convertToNestedMap(value))

\* result is [err, m]: the error returned, and the map as it stands
addToResultWithCollisionCheck(result, fullPath, value, opts) ==
    IF fullPath \in DOMAIN result.m /\ opts.Strict THEN [result EXCEPT !.err = "collision"]
    ELSE [result EXCEPT !.m = MapSet(@, fullPath, value)]

\* the keys of m in the order the range visits them
rangeKeys(m, order) == SelectSeq(order, LAMBDA k : k \in DOMAIN m)

\* flattenObject with its error: [err, m]
RECURSIVE flattenObject(_, _, _, _, _)
\* one round of the loop of flattenObject over obj, for key
flattenEntry(result, obj, key, currentPath, depth, opts, order) ==
    IF result.err # "" THEN result
    ELSE IF ~shouldFlattenValue(obj[key], key, countPathSegments(currentPath), opts)
    THEN addToResultWithCollisionCheck(result, buildFullPath(currentPath, key), obj[key], opts)
    ELSE IF DOMAIN convertToNestedMap(obj[key]) = {}
    THEN addToResultWithCollisionCheck(result, buildFullPath(currentPath, key), obj[key], opts)
    ELSE Bind(flattenObject(convertToNestedMap(obj[key]), buildFullPath(currentPath, key),
                            depth + 1, opts, order),
              LAMBDA nested :
                IF nested.err # "" THEN [result EXCEPT !.err = nested.err]
                ELSE FoldLeft(LAMBDA acc, k :
                                IF acc.err # "" THEN acc
                                ELSE addToResultWithCollisionCheck(acc, k, nested.m[k], opts),
                              result, sortStrings(SetToSeq(DOMAIN nested.m))))

flattenObject(obj, currentPath, depth, opts, order) ==
    IF checkFlattenCollisions(obj, DOMAIN obj)
    THEN IF opts.Strict THEN [err |-> "collision", m |-> EmptyMap]
         ELSE [err |-> "", m |-> obj]
    ELSE FoldLeft(LAMBDA acc, key : flattenEntry(acc, obj, key, currentPath, depth, opts, order),
                  [err |-> "", m |-> EmptyMap], rangeKeys(obj, order))

\* encodeFlattenedMap: the writer carries the error of flattenObject
encodeFlattenedMap(w, key, mapValue, depth, opts, order) ==
    Bind(flattenObject(mapValue, <<>>, 0, opts, order),
         LAMBDA flattened :
            IF flattened.err # "" THEN [w EXCEPT !.err = flattened.err]
            ELSE encodeObject(w, key, VMap(flattened.m), depth,
                              [opts EXCEPT !.FlattenPaths = FALSE]))

\* encodeValueMap, that encodeValue calls for a mapping
encodeValueMap(w, key, v, depth, opts, order) ==
    IF opts.FlattenPaths /\ depth = 0
    THEN encodeFlattenedMap(w, key, convertToNestedMap(v), depth, opts, order)
    ELSE encodeObject(w, key, v, depth, opts)

\* ---------------------------------------------------------------------
\* Decoder: line preprocessing (structural_parser.go)
\* ---------------------------------------------------------------------

\* the loop counts 1 for each leading space and 4 for each leading tab
calculateIndent(line) ==
    Cardinality({i \in 1..LeadingIn(line, {" ", "\t"}) : line[i] = " "})
    + 4 * Cardinality({i \in 1..LeadingIn(line, {" ", "\t"}) : line[i] = "\t"})

\* lineNumber is carried only into error messages and is left out
lineInfo(line) ==
    [content |-> TrimLeftSet(line, {" ", "\t"}),
     indent |-> calculateIndent(line),
     original |-> line,
     isBlank |-> TrimSpace(line) = <<>>]

RECURSIVE dropTrailingBlank(_)
dropTrailingBlank(lines) ==
    IF lines # <<>> /\ lines[Len(lines)].isBlank
    THEN dropTrailingBlank(SubSeq(lines, 1, Len(lines) - 1))
    ELSE lines

preprocessLines(input) ==
    LET rawLines == Split(input, "\n")
    IN dropTrailingBlank([i \in 1..Len(rawLines) |-> lineInfo(rawLines[i])])

\* a validation that looks at the counted width only, where a tab counts 4
validateIndentationWidthOnly(lines, opts) ==
    IF \E i \in 1..Len(lines) :
          /\ ~lines[i].isBlank
          /\ lines[i].indent > 0 /\ lines[i].indent % opts.IndentSize # 0
    THEN "indent" ELSE ""

validateIndentation(lines, opts) ==
    LET bad(line) ==
            /\ ~line.isBlank
            /\ LET leadingSpace == SubSeq(line.original, 1,
                                          Len(line.original) - Len(line.content))
               IN \/ "\t" \in Range(leadingSpace)
                  \/ line.indent > 0 /\ line.indent % opts.IndentSize # 0
    IN IF \E i \in 1..Len(lines) : bad(lines[i]) THEN "indent" ELSE ""

\* ---------------------------------------------------------------------
\* Decoder: token parser (decode_tokens.go); a parser is (input, pos)
\* ---------------------------------------------------------------------

peek(input, pos) == IF pos >= Len(input) THEN NUL ELSE input[pos + 1]

isEOF(input, pos) == pos >= Len(input)

RECURSIVE skipWhitespace(_, _)
skipWhitespace(input, pos) ==
    IF peek(input, pos) \in {" ", "\t"} THEN skipWhitespace(input, pos + 1) ELSE pos

RECURSIVE parseStringLoop(_, _, _, _)
parseStringLoop(input, pos, raw, escaped) ==
    IF isEOF(input, pos) THEN [err |-> "unterminated", s |-> <<>>, pos |-> pos]
    ELSE LET ch == input[pos + 1]
         IN IF escaped THEN parseStringLoop(input, pos + 1, Append(raw, ch), FALSE)
            ELSE IF ch = "\\" THEN parseStringLoop(input, pos + 1, Append(raw, ch), TRUE)
            ELSE IF ch = "\""
            THEN Bind(validateAndUnescape(raw),
                      LAMBDA u : [err |-> u.err, s |-> u.s, pos |-> pos + 1])
            ELSE parseStringLoop(input, pos + 1, Append(raw, ch), FALSE)

parseString(input, pos) ==
    IF peek(input, pos) # "\"" THEN [err |-> "expected", s |-> <<>>, pos |-> pos]
    ELSE parseStringLoop(input, pos + 1, <<>>, FALSE)

RECURSIVE unquotedKeyEnd(_, _)
unquotedKeyEnd(input, pos) ==
    IF isEOF(input, pos) \/ input[pos + 1] \in {":", "[", " ", "\t", "\n"} THEN pos
    ELSE unquotedKeyEnd(input, pos + 1)

\* parseKey is the same scan without the wasQuoted flag
parseKeyWithQuoteInfo(input) ==
    LET start == skipWhitespace(input, 0)
    IN IF peek(input, start) = "\""
       THEN Bind(parseString(input, start),
                 LAMBDA r : [err |-> r.err, key |-> r.s, wasQuoted |-> TRUE, pos |-> r.pos])
       ELSE LET end == unquotedKeyEnd(input, start)
            IN IF end = start
               THEN [err |-> "expected", key |-> <<>>, wasQuoted |-> FALSE, pos |-> end]
               ELSE [err |-> "", key |-> SubSeq(input, start + 1, end),
                     wasQuoted |-> FALSE, pos |-> end]

expect(input, pos, ch) ==
    LET q == skipWhitespace(input, pos)
    IN IF peek(input, q) # ch THEN [err |-> "expected", pos |-> q]
       ELSE [err |-> "", pos |-> q + 1]

\* ---------------------------------------------------------------------
\* Decoder: key assignment and path expansion (structural_parser.go)
\* ---------------------------------------------------------------------

getValueType(v) ==
    CASE v.t = "null" -> "null"
      [] v.t = "map" -> "object"
      [] v.t = "seq" -> "array"
      [] v.t = "str" -> "string"
      [] v.t \in {"int", "float", "nan", "inf"} -> "number"
      [] v.t = "bool" -> "boolean"
      [] OTHER -> "unknown"

isValidIdentifier(s) ==
    /\ s # <<>>
    /\ isLetter(s[1]) \/ s[1] = "_"
    /\ \A i \in 2..Len(s) : isLetter(s[i]) \/ isDigit(s[i]) \/ s[i] = "_"

isExpandablePath(path) ==
    LET parts == Split(path, ".")
    IN \A i \in 1..Len(parts) : isValidIdentifier(parts[i])

\* the maps the decoder builds are functions; an update returns [err, m]
assignKeyWithConflictCheck(opts, key, value, result) ==
    IF /\ opts.Strict /\ opts.ExpandPaths = "safe"
       /\ key \in DOMAIN result
       /\ getValueType(result[key]) = "object"
       /\ getValueType(value) \notin {"object", "null"}
    THEN [err |-> "conflict", m |-> result]
    ELSE [err |-> "", m |-> MapSet(result, key, value)]

checkKeyAssignmentConflict(target, key, value) ==
    /\ key \in DOMAIN target
    /\ getValueType(target[key]) # getValueType(value)
    /\ getValueType(target[key]) # "null"
    /\ getValueType(value) # "null"

handleDirectKeyAssignment(opts, key, value, target) ==
    IF key = <<>> /\ value = Null THEN [err |-> "", m |-> target]
    ELSE IF opts.Strict /\ checkKeyAssignmentConflict(target, key, value)
    THEN [err |-> "conflict", m |-> target]
    ELSE [err |-> "", m |-> MapSet(target, key, value)]

\* mutant of getOrCreateNestedMap: a value that is no mapping is never replaced
getOrCreateNestedMapNoOverwrite(opts, target, key) ==
    IF key \notin DOMAIN target THEN [err |-> "", m |-> EmptyMap]
    ELSE IF target[key].t = "map" THEN [err |-> "", m |-> target[key].m]
    ELSE [err |-> "conflict", m |-> EmptyMap]

getOrCreateNestedMap(opts, target, key) ==
    IF key \notin DOMAIN target THEN [err |-> "", m |-> EmptyMap]
    ELSE IF target[key].t = "map" THEN [err |-> "", m |-> target[key].m]
    ELSE IF opts.Strict THEN [err |-> "conflict", m |-> EmptyMap]
    ELSE [err |-> "", m |-> EmptyMap]

RECURSIVE expandDottedKey(_, _, _, _)
expandMultiPartPath(opts, parts, value, target) ==
    LET firstKey == parts[1]
        remainingPath == Join(Tail(parts), <<".">>)
    IN IF firstKey = <<>> THEN [err |-> "path", m |-> target]
       ELSE LET nested == getOrCreateNestedMap(opts, target, firstKey)
            IN IF nested.err # "" THEN [err |-> nested.err, m |-> target]
               ELSE LET r == expandDottedKey(opts, remainingPath, value, nested.m)
                    IN [err |-> r.err, m |-> MapSet(target, firstKey, VMap(r.m))]

\* handleTrailingDotInPath is the first LET
expandDottedKey(opts, path, value, target) ==
    LET split == Split(path, ".")
        trailing == split[Len(split)] = <<>>
        parts == IF trailing THEN SubSeq(split, 1, Len(split) - 1) ELSE split
        val == IF trailing /\ parts # <<>> THEN VSeq(<<>>) ELSE value
    IN IF parts = <<>> THEN [err |-> "path", m |-> target]
       ELSE IF Len(parts) = 1 THEN handleDirectKeyAssignment(opts, parts[1], val, target)
       ELSE expandMultiPartPath(opts, parts, val, target)

\* ---------------------------------------------------------------------
\* Decoder: rows, headers and lengths (structural_parser.go)
\* ---------------------------------------------------------------------

\* a result of a function that moves the line cursor sp.pos
R(err, v, pos) == [err |-> err, v |-> v, pos |-> pos]

\* the line at the 0-based cursor
At(lines, pos) == lines[pos + 1]

RECURSIVE splitRowLoop(_, _, _, _, _, _)
splitRowLoop(content, delimiter, i, current, inQuotes, escaped) ==
    IF i > Len(content) THEN <<current>>
    ELSE LET ch == content[i]
         IN IF escaped
            THEN splitRowLoop(content, delimiter, i + 1, Append(current, ch), inQuotes, FALSE)
            ELSE IF ch = "\\" /\ inQuotes
            THEN splitRowLoop(content, delimiter, i + 1, Append(current, ch), inQuotes, TRUE)
            ELSE IF ch = "\""
            THEN splitRowLoop(content, delimiter, i + 1, Append(current, ch), ~inQuotes, FALSE)
            ELSE IF ~inQuotes /\ <<ch>> = delimiter
            THEN <<current>> \o splitRowLoop(content, delimiter, i + 1, <<>>, inQuotes, FALSE)
            ELSE splitRowLoop(content, delimiter, i + 1, Append(current, ch), inQuotes, FALSE)

splitRowByDelimiter(content, delimiter) ==
    splitRowLoop(content, delimiter, 1, <<>>, FALSE, FALSE)

RECURSIVE hasUnquotedColonLoop(_, _, _, _)
hasUnquotedColonLoop(content, i, inQuotes, escaped) ==
    IF i > Len(content) THEN FALSE
    ELSE LET ch == content[i]
         IN IF escaped THEN hasUnquotedColonLoop(content, i + 1, inQuotes, FALSE)
            ELSE IF ch = "\\" /\ inQuotes THEN hasUnquotedColonLoop(content, i + 1, inQuotes, TRUE)
            ELSE IF ch = "\"" THEN hasUnquotedColonLoop(content, i + 1, ~inQuotes, FALSE)
            ELSE IF ~inQuotes /\ ch = ":" /\ (i + 1 > Len(content) \/ content[i + 1] = " ")
            THEN TRUE
            ELSE hasUnquotedColonLoop(content, i + 1, inQuotes, FALSE)

hasUnquotedColon(content) == hasUnquotedColonLoop(content, 1, FALSE, FALSE)

extractNumericLength(lengthStr) == SelectSeq(lengthStr, isDigit)

\* strconv.Atoi of a digit string within MaxDigits digits
Atoi(numStr) == DigitsVal(numStr, 0)

\* the length check shared by validateTabularArrayLength, validateListArrayLength
\* and the tail of parseInlineArray: TRUE when the declared length is violated
lengthMismatch(opts, lengthStr, count) ==
    /\ opts.Strict
    /\ lengthStr # <<>>
    /\ extractNumericLength(lengthStr) # <<>>
    /\ count # Atoi(extractNumericLength(lengthStr))

checkEmptyTabularArray(opts, lengthStr) ==
    /\ lengthStr # <<>>
    /\ opts.Strict
    /\ extractNumericLength(lengthStr) # <<>>
    /\ Atoi(extractNumericLength(lengthStr)) > 0

RECURSIVE parseArrayLengthAndDelimiter(_, _, _, _)
parseArrayLengthAndDelimiter(input, pos, lengthStr, delimiter) ==
    LET ch == peek(input, pos)
    IN IF ch = "]" \/ isEOF(input, pos)
       THEN [lengthStr |-> lengthStr, delimiter |-> delimiter, pos |-> pos]
       ELSE IF isDigit(ch)
       THEN parseArrayLengthAndDelimiter(input, pos + 1, Append(lengthStr, ch), delimiter)
       ELSE IF ch = "#"
       THEN parseArrayLengthAndDelimiter(input, pos + 1, lengthStr, delimiter)
       ELSE IF ch \in {"\t", "|"}
       THEN parseArrayLengthAndDelimiter(input, pos + 1, Append(lengthStr, ch), <<ch>>)
       ELSE [lengthStr |-> lengthStr, delimiter |-> delimiter, pos |-> pos]

RECURSIVE skipQuotedLoop(_, _)
skipQuotedLoop(input, pos) ==
    IF isEOF(input, pos) THEN pos
    ELSE IF input[pos + 1] = "\\"
    THEN skipQuotedLoop(input, IF isEOF(input, pos + 1) THEN pos + 1 ELSE pos + 2)
    ELSE IF input[pos + 1] = "\"" THEN pos + 1
    ELSE skipQuotedLoop(input, pos + 1)

skipPastQuotedKey(input, pos) ==
    IF peek(input, pos) # "\"" THEN pos ELSE skipQuotedLoop(input, pos + 1)

\* skipToArrayBracket and the scans to '{' and '}': advance to ch or to the end
RECURSIVE skipTo(_, _, _)
skipTo(input, pos, ch) ==
    IF peek(input, pos) # ch /\ ~isEOF(input, pos) THEN skipTo(input, pos + 1, ch) ELSE pos

RECURSIVE parseHeaderKeys(_, _, _, _, _, _)
parseHeaderKeys(input, pos, delimiter, current, inQuotes, escaped) ==
    IF peek(input, pos) = "}" \/ isEOF(input, pos)
    THEN IF current # <<>> THEN <<TrimSpace(current)>> ELSE <<>>
    ELSE LET ch == input[pos + 1]
         IN IF escaped
            THEN parseHeaderKeys(input, pos + 1, delimiter, Append(current, ch), inQuotes, FALSE)
            ELSE IF ch = "\\" /\ inQuotes
            THEN parseHeaderKeys(input, pos + 1, delimiter, current, inQuotes, TRUE)
            ELSE IF ch = "\""
            THEN IF ~inQuotes
                 THEN parseHeaderKeys(input, pos + 1, delimiter, current, TRUE, FALSE)
                 ELSE <<current>> \o parseHeaderKeys(input, pos + 1, delimiter, <<>>, FALSE, FALSE)
            ELSE IF ~inQuotes /\ ch = " "
            THEN parseHeaderKeys(input, pos + 1, delimiter, current, inQuotes, FALSE)
            ELSE IF ~inQuotes /\ <<ch>> = delimiter
            THEN (IF current # <<>> THEN <<TrimSpace(current)>> ELSE <<>>)
                 \o parseHeaderKeys(input, pos + 1, delimiter, <<>>, inQuotes, FALSE)
            ELSE parseHeaderKeys(input, pos + 1, delimiter, Append(current, ch), inQuotes, FALSE)

parseTabularArrayHeader(input, delimiter) ==
    LET headerDelimiter == IF delimiter \in {<<"\t">>, <<"|">>} THEN delimiter ELSE <<",">>
    IN [keys |-> parseHeaderKeys(input, skipTo(input, 0, "{") + 1, headerDelimiter,
                                 <<>>, FALSE, FALSE),
        headerDelimiter |-> headerDelimiter]

parseHeader(hdr, delimiter) ==
    LET parts == splitRowByDelimiter(hdr, IF delimiter = <<>> THEN <<",">> ELSE delimiter)
        key(raw) ==
            LET part == TrimSpace(raw)
            IN IF Len(part) >= 2 /\ part[1] = "\"" /\ part[Len(part)] = "\""
               THEN LET u == validateAndUnescape(SubSeq(part, 2, Len(part) - 1))
                    IN IF u.err # "" THEN part ELSE u.s
               ELSE part
    IN [i \in 1..Len(parts) |-> key(parts[i])]

\* the values of a row or of an inline array, or the first parse error
parseParts(parts) ==
    Bind([i \in 1..Len(parts) |-> parseValue(TrimSpace(parts[i]))],
         LAMBDA vals :
           LET bad == {i \in 1..Len(parts) : vals[i].err # ""}
           IN IF bad # {} THEN Err(vals[CHOOSE i \in bad : \A j \in bad : i <= j].err)
              ELSE Ok([i \in 1..Len(parts) |-> vals[i].v]))

parseTabularRow(opts, line, delimiter, keys) ==
    LET parts == splitRowByDelimiter(line.content, delimiter)
        n == IF Len(parts) < Len(keys) THEN Len(parts) ELSE Len(keys)
    IN IF opts.Strict /\ Len(parts) # Len(keys) THEN Err("tabular")
       ELSE Bind(parseParts(SubSeq(parts, 1, n)),
                 LAMBDA vals :
                   IF vals.err # "" THEN vals
                   ELSE Ok(VMap([k \in {keys[i] : i \in 1..n} |->
                                   vals.v[CHOOSE i \in 1..n :
                                            /\ keys[i] = k
                                            /\ \A j \in 1..n : keys[j] = k => j <= i]])))

parseInlineArray(opts, input, pos, lengthStr, delimiter) ==
    LET remaining == SubSeq(input, pos + 1, Len(input))
        parts == splitRowByDelimiter(remaining, IF delimiter = <<>> THEN <<",">> ELSE delimiter)
    IN Bind(parseParts(parts),
            LAMBDA vals :
              IF vals.err # "" THEN vals
              ELSE IF lengthMismatch(opts, lengthStr, Len(parts)) THEN Err("length")
              ELSE Ok(VSeq(vals.v)))

\* ---------------------------------------------------------------------
\* Decoder: the structural parser (structural_parser.go).  sp.lines and
\* sp.opts are the parameters lines and opts, sp.pos is pos (0-based).
\* ---------------------------------------------------------------------

RECURSIVE parseObject(_, _, _, _)
RECURSIVE parseArrayFromLine(_, _, _, _, _)
RECURSIVE parseListArray(_, _, _, _, _, _)
RECURSIVE parseListItem(_, _, _, _, _, _)

shouldSkipObjectLine(line, baseIndent) ==
    IF line.isBlank THEN "skipAndContinue"
    ELSE IF line.indent < baseIndent THEN "stopParsing"
    ELSE IF line.indent > baseIndent THEN "skipAndContinue"
    ELSE "parseThisLine"

RECURSIVE parseTabularArrayRowsLoop(_, _, _, _, _, _, _)
parseTabularArrayRowsLoop(lines, pos, opts, baseIndent, keys, delimiter, result) ==
    IF pos >= Len(lines) THEN R("", result, pos)
    ELSE LET line == At(lines, pos)
         IN IF line.isBlank
            THEN IF opts.Strict THEN R("blank", <<>>, pos)
                 ELSE parseTabularArrayRowsLoop(lines, pos + 1, opts, baseIndent, keys,
                                                delimiter, result)
            ELSE IF line.indent < baseIndent THEN R("", result, pos - 1)
            ELSE IF hasUnquotedColon(line.content) THEN R("", result, pos - 1)
            ELSE LET row == parseTabularRow(opts, line, delimiter, keys)
                 IN IF row.err # "" THEN R(row.err, <<>>, pos)
                    ELSE parseTabularArrayRowsLoop(lines, pos + 1, opts, baseIndent, keys,
                                                   delimiter, Append(result, row.v))

\* parseTabularArrayRows that steps the cursor back once more when the rows end
parseTabularArrayRowsRewinding(lines, pos, opts, baseIndent, lengthStr, keys, delimiter) ==
    IF pos + 1 >= Len(lines)
    THEN IF checkEmptyTabularArray(opts, lengthStr) THEN R("length", <<>>, pos + 1)
         ELSE R("", <<>>, pos + 1)
    ELSE Bind(parseTabularArrayRowsLoop(lines, pos + 1, opts, baseIndent, keys, delimiter, <<>>),
              LAMBDA rows : R(rows.err, rows.v, IF rows.pos < Len(lines) THEN rows.pos - 1
                                                ELSE rows.pos))

parseTabularArrayRows(lines, pos, opts, baseIndent, lengthStr, keys, delimiter) ==
    IF pos + 1 >= Len(lines)
    THEN IF checkEmptyTabularArray(opts, lengthStr) THEN R("length", <<>>, pos + 1)
         ELSE R("", <<>>, pos + 1)
    ELSE parseTabularArrayRowsLoop(lines, pos + 1, opts, baseIndent, keys, delimiter, <<>>)

parseTabularArray(lines, pos, opts, line, baseIndent, lengthStr, delimiter) ==
    LET h == parseTabularArrayHeader(line.content, delimiter)
    IN Bind(parseTabularArrayRows(lines, pos, opts, baseIndent, lengthStr,
                                  h.keys, h.headerDelimiter),
            LAMBDA rows :
              IF rows.err # "" THEN R(rows.err, Null, rows.pos)
              ELSE IF lengthMismatch(opts, lengthStr, Len(rows.v))
              THEN R("length", Null, rows.pos)
              ELSE R("", VSeq(rows.v), rows.pos))

routeArrayParsing(lines, pos, opts, input, ppos, line, baseIndent, lengthStr, delimiter) ==
    IF peek(input, ppos) = "{"
    THEN parseTabularArray(lines, pos, opts, line, baseIndent, lengthStr, delimiter)
    ELSE LET c == expect(input, ppos, ":")
             q == skipWhitespace(input, c.pos)
         IN IF c.err # "" THEN R(c.err, Null, pos)
            ELSE IF isEOF(input, q) \/ peek(input, q) = "\n"
            THEN parseListArray(lines, pos, opts, baseIndent, lengthStr, delimiter)
            ELSE Bind(parseInlineArray(opts, input, q, lengthStr, delimiter),
                      LAMBDA a : R(a.err, a.v, pos))

parseArrayFromLine(lines, pos, opts, line, baseIndent) ==
    LET input == line.content
        open == expect(input, skipTo(input, skipPastQuotedKey(input, 0), "["), "[")
        ld == parseArrayLengthAndDelimiter(input, open.pos, <<>>, <<>>)
        close == expect(input, ld.pos, "]")
    IN IF open.err # "" THEN R(open.err, Null, pos)
       ELSE IF close.err # "" THEN R(close.err, Null, pos)
       ELSE routeArrayParsing(lines, pos, opts, input, close.pos, line, baseIndent,
                              ld.lengthStr, ld.delimiter)

\* parseTabularRows with validateTabularArrayLength at its end
RECURSIVE parseTabularRows(_, _, _, _, _, _, _, _)
parseTabularRows(lines, pos, opts, baseIndent, lengthStr, delimiter, keys, result) ==
    IF pos < Len(lines) /\ At(lines, pos).isBlank
    THEN IF opts.Strict THEN R("blank", Null, pos)
         ELSE parseTabularRows(lines, pos + 1, opts, baseIndent, lengthStr, delimiter,
                               keys, result)
    ELSE IF pos < Len(lines) /\ At(lines, pos).indent > baseIndent
    THEN LET row == parseTabularRow(opts, At(lines, pos), delimiter, keys)
         IN IF row.err # "" THEN R(row.err, Null, pos)
            ELSE parseTabularRows(lines, pos + 1, opts, baseIndent, lengthStr, delimiter,
                                  keys, Append(result, row.v))
    ELSE IF lengthMismatch(opts, lengthStr, Len(result)) THEN R("length", Null, pos)
    ELSE R("", VSeq(result), pos)

parseTabularArrayFromParser(lines, pos, opts, input, ppos, baseIndent, lengthStr, delimiter) ==
    LET headerEnd == skipTo(input, ppos + 1, "}")
        keys == parseHeader(SubSeq(input, ppos + 2, headerEnd), delimiter)
        c == expect(input, headerEnd + 1, ":")
        q == skipWhitespace(input, c.pos)
    IN IF c.err # "" THEN R(c.err, Null, pos)
       ELSE IF isEOF(input, q) \/ peek(input, q) = "\n"
       THEN parseTabularRows(lines, pos + 1, opts, baseIndent, lengthStr, delimiter, keys, <<>>)
       ELSE R("tabular-inline", Null, pos)

parseNonTabularArrayFromParser(lines, pos, opts, input, ppos, baseIndent, lengthStr, delimiter) ==
    LET c == expect(input, ppos, ":")
        q == skipWhitespace(input, c.pos)
    IN IF c.err # "" THEN R(c.err, Null, pos)
       ELSE IF isEOF(input, q) \/ peek(input, q) = "\n"
       THEN parseListArray(lines, pos + 1, opts, baseIndent, lengthStr, delimiter)
       ELSE Bind(parseInlineArray(opts, input, q, lengthStr, delimiter),
                 LAMBDA a : R(a.err, a.v, pos))

parseArray(lines, pos, opts, input, ppos, baseIndent) ==
    LET open == expect(input, ppos, "[")
        ld == parseArrayLengthAndDelimiter(input, open.pos, <<>>, <<>>)
        close == expect(input, ld.pos, "]")
    IN IF open.err # "" THEN R(open.err, Null, pos)
       ELSE IF close.err # "" THEN R(close.err, Null, pos)
       ELSE IF peek(input, close.pos) = "{"
       THEN parseTabularArrayFromParser(lines, pos, opts, input, close.pos, baseIndent,
                                        ld.lengthStr, ld.delimiter)
       ELSE parseNonTabularArrayFromParser(lines, pos, opts, input, close.pos, baseIndent,
                                           ld.lengthStr, ld.delimiter)

\* parseKeyValueLineWithQuoteInfo (quoteInfo) and parseKeyValueLine (~quoteInfo):
\* the latter returns nil for an empty value and parses no inline "[...]" array
keyValueLine(lines, pos, opts, line, baseIndent, quoteInfo) ==
    Bind(parseKeyWithQuoteInfo(line.content),
         LAMBDA k :
           LET input == line.content
               KV(err, v, p) == [err |-> err, key |-> k.key, wasQuoted |-> k.wasQuoted,
                                 v |-> v, pos |-> p]
               empty == IF quoteInfo THEN VMap(EmptyMap) ELSE Null
               c == expect(input, k.pos, ":")
               q == skipWhitespace(input, c.pos)
               remaining == SubSeq(input, q + 1, Len(input))
           IN IF k.err # "" THEN KV(k.err, Null, pos)
              ELSE IF peek(input, k.pos) = "["
              THEN Bind(parseArrayFromLine(lines, pos, opts, line, baseIndent),
                        LAMBDA a : KV(a.err, a.v, a.pos))
              ELSE IF c.err # "" THEN KV(c.err, Null, pos)
              ELSE IF isEOF(input, q) \/ peek(input, q) = "\n"
              THEN IF pos + 1 >= Len(lines) THEN KV("", empty, pos + 1)
                   ELSE IF At(lines, pos + 1).indent <= baseIndent
                   THEN KV("", IF quoteInfo /\ HasSuffix(k.key, <<"[", "0", "]">>)
                               THEN VSeq(<<>>) ELSE empty, pos)
                   ELSE Bind(parseObject(lines, opts, At(lines, pos + 1).indent, pos + 1),
                             LAMBDA o : KV(o.err, o.v, o.pos - 1))
              ELSE IF quoteInfo /\ HasPrefix(remaining, <<"[">>)
              THEN Bind(parseArray(lines, pos, opts, input, q, baseIndent),
                        LAMBDA a : KV(a.err, a.v, a.pos))
              ELSE Bind(parseValue(remaining), LAMBDA r : KV(r.err, r.v, pos)))

parseKeyValueLineWithQuoteInfo(lines, pos, opts, line, baseIndent) ==
    keyValueLine(lines, pos, opts, line, baseIndent, TRUE)

parseKeyValueLine(lines, pos, opts, line, baseIndent) ==
    keyValueLine(lines, pos, opts, line, baseIndent, FALSE)

\* handleObjectKeyValuePair once the key and its value are parsed: the key is
\* expanded or assigned in result
assignParsedKey(opts, key, wasQuoted, value, result) ==
    LET shouldExpand == /\ opts.ExpandPaths = "safe"
                        /\ ~wasQuoted
                        /\ "." \in Range(key)
                        /\ isExpandablePath(key)
    IN IF shouldExpand THEN expandDottedKey(opts, key, value, result)
       ELSE assignKeyWithConflictCheck(opts, key, value, result)

handleObjectKeyValuePair(lines, pos, opts, line, baseIndent, result) ==
    Bind(parseKeyValueLineWithQuoteInfo(lines, pos, opts, line, baseIndent),
         LAMBDA kv :
           IF kv.err # "" THEN [err |-> kv.err, m |-> result, pos |-> pos]
           ELSE Bind(assignParsedKey(opts, kv.key, kv.wasQuoted, kv.v, result),
                     LAMBDA a : [err |-> a.err, m |-> a.m, pos |-> kv.pos]))

RECURSIVE parseObjectLoop(_, _, _, _, _)
parseObjectLoop(lines, opts, baseIndent, pos, result) ==
    IF pos >= Len(lines) THEN R("", VMap(result), pos)
    ELSE LET line == At(lines, pos)
             skipAction == shouldSkipObjectLine(line, baseIndent)
         IN IF skipAction = "skipAndContinue"
            THEN parseObjectLoop(lines, opts, baseIndent, pos + 1, result)
            ELSE IF skipAction = "stopParsing" THEN R("", VMap(result), pos)
            ELSE Bind(handleObjectKeyValuePair(lines, pos, opts, line, baseIndent, result),
                      LAMBDA h :
                        IF h.err # "" THEN R(h.err, Null, pos)
                        ELSE parseObjectLoop(lines, opts, baseIndent, h.pos + 1, h.m))

parseObject(lines, opts, baseIndent, startPos) ==
    parseObjectLoop(lines, opts, baseIndent, startPos, EmptyMap)

\* ---------------------------------------------------------------------
\* Decoder: list arrays and list items (structural_parser.go)
\* ---------------------------------------------------------------------

RECURSIVE nextNonBlank(_, _)
nextNonBlank(lines, pos) ==
    IF pos < Len(lines) /\ At(lines, pos).isBlank THEN nextNonBlank(lines, pos + 1) ELSE pos

handleBlankLineInListArray(lines, pos, opts, baseIndent) ==
    LET n == nextNonBlank(lines, pos + 1)
    IN IF n < Len(lines) /\ At(lines, n).indent <= baseIndent THEN "break"
       ELSE IF opts.Strict THEN "error"
       ELSE "continue"

isNestedArrayItem(itemLines) ==
    /\ itemLines # <<>>
    /\ LET firstContent == TrimSpace(TrimPrefix(itemLines[1].content, <<"-">>))
       IN /\ "[" \in Range(firstContent)
          /\ "]" \in Range(firstContent)
          /\ HasSuffix(firstContent, <<":">>)

shouldStopCollectingLines(nextLine, itemIndent, itemLines) ==
    \/ nextLine.indent < itemIndent
    \/ nextLine.indent = itemIndent /\ HasPrefix(nextLine.content, <<"-">>)
    \/ /\ nextLine.indent > itemIndent
       /\ HasPrefix(nextLine.content, <<"-">>)
       /\ ~isNestedArrayItem(itemLines)

\* the collecting loop of collectAndParseListObject
RECURSIVE collectItemLines(_, _, _, _, _)
collectItemLines(lines, pos, opts, itemIndent, itemLines) ==
    IF pos >= Len(lines) THEN [err |-> "", itemLines |-> itemLines, pos |-> pos]
    ELSE LET nextLine == At(lines, pos)
         IN IF nextLine.isBlank
            THEN IF opts.Strict THEN [err |-> "blank", itemLines |-> itemLines, pos |-> pos]
                 ELSE collectItemLines(lines, pos + 1, opts, itemIndent, itemLines)
            ELSE IF shouldStopCollectingLines(nextLine, itemIndent, itemLines)
            THEN [err |-> "", itemLines |-> itemLines, pos |-> pos]
            ELSE collectItemLines(lines, pos + 1, opts, itemIndent, Append(itemLines, nextLine))

collectAndParseListObject(lines, pos, opts, line, delimiter) ==
    LET c == collectItemLines(lines, pos + 1, opts, line.indent, <<line>>)
    IN IF c.err # "" THEN R(c.err, Null, c.pos)
       ELSE parseListItem(lines, c.pos, opts, c.itemLines, line.indent, delimiter)

parseListArrayItem(lines, pos, opts, line, baseIndent, delimiter) ==
    LET content == TrimSpace(TrimPrefix(line.content, <<"-">>))
    IN IF content = <<>> THEN R("", VMap(EmptyMap), pos + 1)
       ELSE IF HasPrefix(content, <<"[">>)
       THEN Bind(parseArrayFromLine(lines, pos, opts, line, line.indent),
                 LAMBDA a : IF a.err # "" THEN a ELSE R("", a.v, a.pos + 1))
       ELSE IF ":" \notin Range(content)
       THEN Bind(parseValue(content), LAMBDA r : R(r.err, r.v, pos + 1))
       ELSE collectAndParseListObject(lines, pos, opts, line, delimiter)

RECURSIVE parseListArrayLoop(_, _, _, _, _, _, _)
parseListArrayLoop(lines, pos, opts, baseIndent, lengthStr, delimiter, result) ==
    LET done(p) == IF lengthMismatch(opts, lengthStr, Len(result)) THEN R("length", Null, p)
                   ELSE R("", VSeq(result), p)
    IN IF pos >= Len(lines) THEN done(pos)
       ELSE LET line == At(lines, pos)
                blank == handleBlankLineInListArray(lines, pos, opts, baseIndent)
            IN IF line.isBlank
               THEN IF blank = "error" THEN R("blank", Null, pos)
                    ELSE IF blank = "break" THEN done(pos - 1)
                    ELSE parseListArrayLoop(lines, pos + 1, opts, baseIndent, lengthStr,
                                            delimiter, result)
               ELSE IF line.indent <= baseIndent THEN done(pos - 1)
               ELSE IF ~HasPrefix(line.content, <<"-">>) THEN done(pos - 1)
               ELSE Bind(parseListArrayItem(lines, pos, opts, line, baseIndent, delimiter),
                         LAMBDA item :
                           IF item.err # "" THEN R(item.err, Null, pos)
                           ELSE parseListArrayLoop(lines, item.pos, opts, baseIndent,
                                                   lengthStr, delimiter,
                                                   Append(result, item.v)))

parseListArray(lines, pos, opts, baseIndent, lengthStr, delimiter) ==
    parseListArrayLoop(lines, pos + 1, opts, baseIndent, lengthStr, delimiter, <<>>)

\* "key: value" on one line as the inner loops of parseListItem read it:
\* parseKey, expect(':'), skipWhitespace, then the rest of the line
fieldOf(line) ==
    Bind(parseKeyWithQuoteInfo(line.content),
         LAMBDA k :
           LET c == expect(line.content, k.pos, ":")
               q == skipWhitespace(line.content, c.pos)
           IN [keyErr |-> k.err # "",
               key |-> k.key,
               isArray |-> k.err = "" /\ peek(line.content, k.pos) = "[",
               colonErr |-> c.err # "",
               remaining |-> SubSeq(line.content, q + 1, Len(line.content))])

\* the lines after 0-based index j that are indented deeper than indent, up to
\* the first one that is not; blank lines are passed over
RECURSIVE collectNested(_, _, _, _)
collectNested(lines, j, indent, acc) ==
    IF j >= Len(lines) THEN [nested |-> acc, j |-> j]
    ELSE IF At(lines, j).isBlank THEN collectNested(lines, j + 1, indent, acc)
    ELSE IF At(lines, j).indent <= indent THEN [nested |-> acc, j |-> j]
    ELSE collectNested(lines, j + 1, indent, Append(acc, At(lines, j)))

\* parseListItem, third level: every failure is skipped
RECURSIVE deepNestedLoop(_, _, _, _)
deepNestedLoop(deepNestedLines, opts, i, deepNested) ==
    IF i > Len(deepNestedLines) THEN deepNested
    ELSE LET deepLine == deepNestedLines[i]
             f == fieldOf(deepLine)
         IN IF f.keyErr THEN deepNestedLoop(deepNestedLines, opts, i + 1, deepNested)
            ELSE IF f.isArray
            THEN Bind(parseArrayFromLine(<<deepLine>>, 0, opts, deepLine, deepLine.indent),
                      LAMBDA a :
                        deepNestedLoop(deepNestedLines, opts, i + 1,
                                       IF a.err = "" THEN MapSet(deepNested, f.key, a.v)
                                       ELSE deepNested))
            ELSE Bind(parseValue(f.remaining),
                      LAMBDA r :
                        deepNestedLoop(deepNestedLines, opts, i + 1,
                                       IF ~f.colonErr /\ r.err = ""
                                       THEN MapSet(deepNested, f.key, r.v)
                                       ELSE deepNested))

\* parseListItem, second level: every failure is skipped with k++
RECURSIVE nestedLoop(_, _, _, _)
nestedLoop(nestedLines, opts, k, nestedResult) ==
    IF k >= Len(nestedLines) THEN nestedResult
    ELSE LET nestedLine == At(nestedLines, k)
             f == fieldOf(nestedLine)
             deep == collectNested(nestedLines, k + 1, nestedLine.indent, <<>>)
         IN IF f.keyErr THEN nestedLoop(nestedLines, opts, k + 1, nestedResult)
            ELSE IF f.isArray
            THEN Bind(parseArrayFromLine(<<nestedLine>> \o deep.nested, 0, opts, nestedLine,
                                         nestedLine.indent),
                      LAMBDA a :
                        IF a.err # "" THEN nestedLoop(nestedLines, opts, k + 1, nestedResult)
                        ELSE nestedLoop(nestedLines, opts, deep.j,
                                        MapSet(nestedResult, f.key, a.v)))
            ELSE IF f.colonErr THEN nestedLoop(nestedLines, opts, k + 1, nestedResult)
            ELSE IF TrimSpace(f.remaining) = <<>>
            THEN IF deep.nested # <<>>
                 THEN nestedLoop(nestedLines, opts, deep.j,
                                 MapSet(nestedResult, f.key,
                                        VMap(deepNestedLoop(deep.nested, opts, 1, EmptyMap))))
                 ELSE nestedLoop(nestedLines, opts, k + 1,
                                 MapSet(nestedResult, f.key, VMap(EmptyMap)))
            ELSE Bind(parseValue(f.remaining),
                      LAMBDA r :
                        IF r.err # "" THEN nestedLoop(nestedLines, opts, k + 1, nestedResult)
                        ELSE nestedLoop(nestedLines, opts, k + 1,
                                        MapSet(nestedResult, f.key, r.v)))

\* parseListItem, the loop over the item's lines from index i; a failure on a
\* line is skipped with i++, only the wrapped first key and the line limit return
RECURSIVE listItemLoop(_, _, _, _, _)
listItemLoop(itemLines, opts, firstKey, i, result) ==
    IF i >= Len(itemLines) THEN [err |-> "", m |-> result]
    ELSE LET line == At(itemLines, i)
             f == fieldOf(line)
             sub == collectNested(itemLines, i + 1, line.indent, <<>>)
         IN IF line.isBlank \/ f.keyErr THEN listItemLoop(itemLines, opts, firstKey, i + 1, result)
            ELSE IF f.isArray
            THEN Bind(parseArrayFromLine(<<line>> \o sub.nested, 0, opts, line, line.indent),
                      LAMBDA a :
                        IF a.err # "" THEN listItemLoop(itemLines, opts, firstKey, i + 1, result)
                        ELSE listItemLoop(itemLines, opts, firstKey, sub.j,
                                          MapSet(result, f.key, a.v)))
            ELSE IF f.colonErr THEN listItemLoop(itemLines, opts, firstKey, i + 1, result)
            ELSE IF TrimSpace(f.remaining) = <<>>
            THEN IF sub.nested = <<>>
                 THEN listItemLoop(itemLines, opts, firstKey, i + 1,
                                   MapSet(result, f.key, VMap(EmptyMap)))
                 ELSE IF Len(sub.nested) > nestedLinesLimit THEN [err |-> "depth", m |-> result]
                 ELSE IF f.key = firstKey /\ firstKey # <<>>
                 THEN Bind(parseObject(sub.nested, opts, sub.nested[1].indent, 0),
                           LAMBDA o :
                             IF o.err # "" THEN [err |-> o.err, m |-> result]
                             ELSE listItemLoop(itemLines, opts, firstKey, sub.j,
                                               MapSet(result, f.key, o.v)))
                 ELSE listItemLoop(itemLines, opts, firstKey, sub.j,
                                   MapSet(result, f.key,
                                          VMap(nestedLoop(sub.nested, opts, 0, EmptyMap))))
            ELSE Bind(parseValue(f.remaining),
                      LAMBDA r :
                        IF r.err # "" THEN listItemLoop(itemLines, opts, firstKey, i + 1, result)
                        ELSE listItemLoop(itemLines, opts, firstKey, i + 1,
                                          MapSet(result, f.key, r.v)))

\* parseListItem, "key[...]" on the hyphen line: the sibling fields that follow
\* the array are read with the outer parser's parseKeyValueLine
RECURSIVE siblingFields(_, _, _, _, _, _, _)
siblingFields(lines, pos, opts, adjustedLines, i, baseIndent, result) ==
    IF i >= Len(adjustedLines) THEN R("", VMap(result), pos)
    ELSE LET line == At(adjustedLines, i)
         IN IF line.isBlank \/ ":" \notin Range(line.content)
            THEN siblingFields(lines, pos, opts, adjustedLines, i + 1, baseIndent, result)
            ELSE Bind(parseKeyValueLine(lines, pos, opts, line, baseIndent),
                      LAMBDA kv :
                        IF kv.err # "" THEN R(kv.err, Null, pos)
                        ELSE siblingFields(lines, kv.pos, opts, adjustedLines, i + 1,
                                           baseIndent, MapSet(result, kv.key, kv.v)))

\* parseListItem, tabular header on the hyphen line: the fields after the rows
RECURSIVE tabularSiblingFields(_, _, _, _)
tabularSiblingFields(adjustedLines, i, baseIndent, result) ==
    IF i >= Len(adjustedLines) THEN result
    ELSE LET line == At(adjustedLines, i)
             f == fieldOf(line)
         IN IF line.isBlank THEN tabularSiblingFields(adjustedLines, i + 1, baseIndent, result)
            ELSE IF line.indent <= baseIndent THEN result
            ELSE Bind(parseValue(f.remaining),
                      LAMBDA r :
                        tabularSiblingFields(adjustedLines, i + 1, baseIndent,
                            IF ~f.keyErr /\ ~f.colonErr /\ r.err = ""
                            THEN MapSet(result, f.key, r.v) ELSE result))

\* parseListItem from "Parse as object with proper nesting support" on, once the
\* hyphen line is known not to open an array: the first line is cut at its first
\* ':' and the remaining lines go through listItemLoop
listItemObject(opts, itemLines, content) ==
    LET hasColon == ":" \in Range(content)
        parts == SplitN2(content, ":")
        key == TrimSpace(parts[1])
        valueStr == IF Len(parts) > 1 THEN TrimSpace(parts[2]) ELSE <<>>
        keyHasArray == "[" \in Range(key) /\ "]" \in Range(key)
        baseKey == SubSeq(key, 1, Index(key, "["))
        wrapped == collectNested(itemLines, 1, itemLines[1].indent, <<>>).nested
        wrapper == hasColon /\ ~keyHasArray /\ valueStr = <<>>
                   /\ "[" \notin Range(key) /\ Len(itemLines) > 1
        firstKey == IF hasColon /\ ~keyHasArray /\ valueStr = <<>> THEN key ELSE <<>>
        start == IF /\ "[" \in Range(content) /\ "]" \in Range(content) /\ hasColon
                    /\ valueStr = <<>>
                    /\ ~HasSuffix(key, <<"[", "0", "]">>)
                 THEN 0 ELSE 1
        rest == SubSeq(itemLines, 2, Len(itemLines))
        nests == \/ wrapper /\ wrapped # <<>>
                 \/ firstKey # <<>> /\ "[" \notin Range(firstKey) /\ Len(itemLines) > 1
        nestedLines == IF wrapper /\ wrapped # <<>> THEN wrapped ELSE rest
    IN Bind(parseValue(valueStr),
            LAMBDA value :
              LET result == IF ~hasColon THEN EmptyMap
                            ELSE IF keyHasArray
                            THEN IF valueStr = <<>>
                                 THEN IF HasSuffix(key, <<"[", "0", "]">>)
                                      THEN MapSet(EmptyMap, baseKey, VSeq(<<>>)) ELSE EmptyMap
                                 ELSE MapSet(EmptyMap, baseKey, value.v)
                            ELSE IF valueStr # <<>> THEN MapSet(EmptyMap, key, value.v)
                            ELSE EmptyMap
              IN IF hasColon /\ valueStr # <<>> /\ value.err # "" THEN Err(value.err)
                 ELSE IF nests
                 THEN Bind(parseObject(nestedLines, opts, nestedLines[1].indent, 0),
                           LAMBDA o : IF o.err # "" THEN Err(o.err)
                                      ELSE Ok(VMap(MapSet(result, key, o.v))))
                 ELSE Bind(listItemLoop(itemLines, opts, firstKey, start, result),
                           LAMBDA loop : IF loop.err # "" THEN Err(loop.err)
                                         ELSE IF DOMAIN loop.m = {} THEN parseValue(content)
                                         ELSE Ok(VMap(loop.m))))

parseListItem(lines, pos, opts, itemLines, baseIndent, parentDelimiter) ==
    LET firstLine == itemLines[1]
        content == TrimSpace(TrimPrefix(firstLine.content, <<"-">>))
        k == parseKeyWithQuoteInfo(content)
        arrayKey == k.err = "" /\ peek(content, k.pos) = "["
        adjustedLines == [itemLines EXCEPT ![1].content = content]
    IN IF itemLines = <<>> THEN R("empty", Null, pos)
       ELSE IF HasPrefix(content, <<"[">>)
       THEN parseArrayFromLine(lines, pos, opts, firstLine, baseIndent)
       ELSE IF "[" \in Range(content) /\ "]" \in Range(content) /\ arrayKey
       THEN Bind(parseArrayFromLine(adjustedLines, 0, opts, adjustedLines[1], baseIndent),
                 LAMBDA a :
                   IF a.err # "" THEN R(a.err, Null, pos)
                   ELSE siblingFields(lines, pos, opts, adjustedLines, a.pos + 1, baseIndent,
                                      MapSet(EmptyMap, k.key, a.v)))
       ELSE IF Len(itemLines) = 1 /\ ":" \notin Range(content)
       THEN Bind(parseValue(content), LAMBDA plain : R(plain.err, plain.v, pos))
       ELSE IF /\ "[" \in Range(content) /\ "{" \in Range(content) /\ "}" \in Range(content)
               /\ arrayKey
       THEN Bind(parseArrayFromLine(adjustedLines, 0, opts, adjustedLines[1],
                                    adjustedLines[1].indent),
                 LAMBDA a :
                   IF a.err # "" THEN R(a.err, Null, pos)
                   ELSE R("", VMap(tabularSiblingFields(adjustedLines, a.pos + 1, baseIndent,
                                                        MapSet(EmptyMap, k.key, a.v))), pos))
       ELSE Bind(listItemObject(opts, itemLines, content),
                 LAMBDA object : R(object.err, object.v, pos))

\* ---------------------------------------------------------------------
\* Decoder: root detection and entry points (structural_parser.go, decode.go)
\* ---------------------------------------------------------------------

RECURSIVE detectQuotedLineTypeLoop(_, _, _)
detectQuotedLineTypeLoop(content, i, escaped) ==
    IF i > Len(content) THEN "primitive"
    ELSE IF escaped THEN detectQuotedLineTypeLoop(content, i + 1, FALSE)
    ELSE IF content[i] = "\\" THEN detectQuotedLineTypeLoop(content, i + 1, TRUE)
    ELSE IF content[i] = "\""
    THEN LET remaining == TrimSpace(SubSeq(content, i + 1, Len(content)))
         IN IF HasPrefix(remaining, <<":">>) \/ HasPrefix(remaining, <<"[">>)
            THEN "object" ELSE "primitive"
    ELSE detectQuotedLineTypeLoop(content, i + 1, FALSE)

detectQuotedLineType(content) == detectQuotedLineTypeLoop(content, 2, FALSE)

hasColonIndicatingObject(content) ==
    /\ ":" \in Range(content)
    /\ \/ HasSuffix(TrimSpace(content), <<":">>)
       \/ LET parts == SplitN2(content, ":")
          IN TrimSpace(parts[2]) # <<>> \/ "[" \in Range(parts[1])

detectSingleLineType(content) ==
    IF HasPrefix(content, <<"\"">>) THEN detectQuotedLineType(content)
    ELSE IF hasColonIndicatingObject(content) THEN "object"
    ELSE "primitive"

detectRootType(lines) ==
    IF lines = <<>> THEN "object"
    ELSE IF HasPrefix(lines[1].content, <<"[">>) THEN "array"
    ELSE IF Len(lines) = 1 THEN detectSingleLineType(lines[1].content)
    ELSE "object"

\* parseRootArray and parseRootPrimitive are the first two cases
parse(lines, opts) ==
    LET rootType == detectRootType(lines)
    IN IF lines = <<>> THEN Ok(VMap(EmptyMap))
       ELSE IF opts.Strict /\ validateIndentation(lines, opts) # ""
       THEN Err(validateIndentation(lines, opts))
       ELSE IF rootType = "array"
       THEN Bind(parseArrayFromLine(lines, 0, opts, lines[1], 0),
                 LAMBDA array : [err |-> array.err, v |-> array.v])
       ELSE IF rootType = "primitive" THEN parseValue(lines[1].content)
       ELSE Bind(parseObject(lines, opts, 0, 0),
                 LAMBDA object : [err |-> object.err, v |-> object.v])

\* getDecodeOptions has filled the defaults of opts
decode(input, opts) ==
    IF input = <<>> THEN Ok(VMap(EmptyMap))
    ELSE Bind(parse(preprocessLines(input), opts),
              LAMBDA r : IF r.err # "" THEN Err(r.err) ELSE r)

\* ---------------------------------------------------------------------
\* normalize (utils.go) on the host values of the model
\* ---------------------------------------------------------------------

\* normalizeFloat with NaN mapped to an infinity, which a second application
\* maps to nil
normalizeFloatNaNToInfinity(f) ==
    IF f.t = "negzero" THEN VInt(0)
    ELSE IF f.t = "nan" THEN VInf(FALSE)
    ELSE IF f.t = "inf" THEN Null
    ELSE IF f.sc = 0 THEN VInt(f.num)
    ELSE f

normalizeFloat(f) ==
    IF f.t = "negzero" THEN VInt(0)
    ELSE IF f.t \in {"nan", "inf"} THEN Null
    ELSE IF f.sc = 0 THEN VInt(f.num)
    ELSE f

\* int64(reflect.ValueOf(val).Uint()): the 64 bits of the unsigned value read
\* as two's complement, so a value of 2^63 or more loses 2^64
int64OfUint(u) ==
    IF u.hi = 0 \/ (u.hi = 1 /\ u.n < 0) THEN VInt64(u.hi, u.n)
    ELSE VInt64(u.hi - 2, u.n)

RECURSIVE normalize(_)
normalize(v) ==
    CASE v.t \in {"null", "bool", "str", "int"} -> v
      [] v.t = "uint" -> int64OfUint(v)
      [] v.t = "other" -> Null
      [] v.t \in {"float", "nan", "inf", "negzero"} -> normalizeFloat(v)
      [] v.t = "seq" -> VSeq([i \in 1..Len(v.e) |-> normalize(v.e[i])])
      [] v.t = "map" -> VMap([k \in DOMAIN v.m |-> normalize(v.m[k])])
      [] v.t = "omap" -> VOMap(v.keys, [k \in DOMAIN v.om |-> normalize(v.om[k])])

-----------------------------------------------------------------------------
(* Options with their defaults applied (api.go).                           *)

\* getEncodeOptions(nil)
DefaultEncodeOptions ==
    [Indent |-> defaultIndent, Delimiter |-> defaultDelimiter, LengthMarker |-> <<>>,
     FlattenPaths |-> FALSE, FlattenDepth |-> 0, Strict |-> FALSE]

\* getDecodeOptions(nil)
DefaultDecodeOptions == [Strict |-> TRUE, IndentSize |-> defaultIndent, ExpandPaths |-> "off"]

\* decOut before a decoder has run
Pending == [err |-> "pending", v |-> Null]

\* the structural parser before newStructuralParser has run: its lines, its
\* cursor, and the activations of parseObject that have not returned
NoParser == [lines |-> <<>>, pos |-> 0, frames |-> <<>>]

-----------------------------------------------------------------------------
(* The scalar codec on strings: encodePrimitive, then parseValue.          *)

MaxStrLen == 2

StrChars == {"a", "e", "0", "1", "-", ".", " ", ",", ":", "\"", "\\", "\n", VT}

RECURSIVE StringsUpTo(_, _)
StringsUpTo(chars, n) ==
    IF n = 0 THEN {<<>>}
    ELSE LET shorter == StringsUpTo(chars, n - 1)
         IN shorter \cup {Append(s, c) : s \in shorter, c \in chars}

NamedStrings ==
    {<<>>, <<"t", "r", "u", "e">>, <<"f", "a", "l", "s", "e">>, <<"n", "u", "l", "l">>,
     <<"4", "2">>, <<" ", "l", "e", "a", "d">>, <<"a", ",", "b">>, <<"a", "\n", "b">>}

InitPrim ==
    /\ pc = "start"
    /\ hostValue \in {VStr(s) : s \in StringsUpTo(StrChars, MaxStrLen) \cup NamedStrings}
    /\ encOpts = DefaultEncodeOptions
    /\ decOpts = DefaultDecodeOptions
    /\ doc = <<>>
    /\ encOut = newWriter(encOpts.Indent)
    /\ decOut = Pending
    /\ sp = NoParser
    /\ normalized = Null
    /\ calls = NoCalls
    /\ pkg = PackageVars

EncodeScalar ==
    /\ pc = "start"
    /\ doc' = encodePrimitive(hostValue, encOpts.Delimiter)
    /\ pc' = "encoded"
    /\ UNCHANGED <<hostValue, encOpts, decOpts, encOut, decOut, sp, normalized, calls, pkg>>

ParseScalar ==
    /\ pc = "encoded"
    /\ decOut' = parseValue(doc)
    /\ pc' = "decoded"
    /\ UNCHANGED <<hostValue, encOpts, decOpts, doc, encOut, sp, normalized, calls, pkg>>

NextPrim == EncodeScalar \/ ParseScalar

SpecPrim == InitPrim /\ [][NextPrim]_vars

\* C2: for every string s, parsing the scalar text the encoder emits for s
\* returns exactly the string s
C2_StringRoundTrip == pc = "decoded" => decOut = Ok(hostValue)

\* the six strings the specification names do round-trip
C2_NamedStringsRoundTrip ==
    (pc = "decoded" /\ hostValue.s \in NamedStrings) => decOut = Ok(hostValue)

-----------------------------------------------------------------------------
(* Marshal then Unmarshal under default options (toon.go), over a bounded  *)
(* universe of host values.                                                *)

MaxSeqLen == 2

Keys == {<<"a">>, <<"b">>}

Scalars == {Null, VInt(1), VStr(<<"x">>)}

\* the sequences of at most MaxSeqLen elements of S
RECURSIVE TuplesUpTo(_, _)
TuplesUpTo(S, n) ==
    IF n = 0 THEN {<<>>}
    ELSE LET shorter == TuplesUpTo(S, n - 1)
         IN shorter \cup {Append(t, x) : t \in {u \in shorter : Len(u) = n - 1}, x \in S}

SeqsOf(S) == {VSeq(t) : t \in TuplesUpTo(S, MaxSeqLen)}

\* the plain mappings with keys among Keys and values in S
MapsOf(S) == {VMap(m) : m \in UNION {[K -> S] : K \in SUBSET Keys}}

\* the sequences of at most two elements of S
ShortSeqsOf(S) ==
    {VSeq(<<>>)} \cup {VSeq(<<x>>) : x \in S} \cup {VSeq(<<x, y>>) : x \in S, y \in S}

Level1 == Scalars \cup SeqsOf(Scalars) \cup MapsOf(Scalars)

Level2 == Level1 \cup ShortSeqsOf(Level1) \cup MapsOf(Level1)

\* one more level of nesting around the values of Level2
Level3 == Level2 \cup {VSeq(<<v>>) : v \in Level2} \cup {VMap([k \in {<<"a">>} |-> v]) : v \in Level2}

\* Keys that need no quotes and keys that do, and the places where the
\* encoder writes a key: a field of an object, a column of a tabular header,
\* and the first or a later field of an element of a list array.
RoundTripKeys ==
    {<<"a">>, <<"_", "1", ".", "b">>, <<"a", " ", "b">>, <<"a", ":", "b">>, <<"1">>,
     <<"a", "\"", "b">>, <<"-">>, <<>>}
KeyPlaces == {"field", "column", "firstfield", "laterfield"}
KeyValue(place, k) ==
    CASE place = "field" -> VMap([x \in {k} |-> VInt(1)])
      [] place = "column" -> VSeq(<<VMap([x \in {k} |-> VInt(1)]), VMap([x \in {k} |-> VInt(2)])>>)
      [] place = "firstfield" -> VSeq(<<VMap([x \in {k} |-> VInt(1)]), VInt(2)>>)
      [] place = "laterfield" ->
            VSeq(<<VOMap(<<<<"z">>, k>>, [x \in {<<"z">>, k} |-> VInt(1)]), VInt(2)>>)
KeyValues == {KeyValue(place, k) : place \in KeyPlaces, k \in RoundTripKeys}

InitRT ==
    /\ pc = "start"
    /\ hostValue \in Level3 \cup KeyValues
    /\ encOpts = DefaultEncodeOptions
    /\ decOpts = DefaultDecodeOptions
    /\ doc = <<>>
    /\ encOut = newWriter(encOpts.Indent)
    /\ decOut = Pending
    /\ sp = NoParser
    /\ normalized = Null
    /\ calls = NoCalls
    /\ pkg = PackageVars

Marshal ==
    /\ pc = "start"
    /\ encOut' = encode(normalize(hostValue), encOpts)
    /\ doc' = encOut'.buf
    /\ pc' = "encoded"
    /\ UNCHANGED <<hostValue, encOpts, decOpts, decOut, sp, normalized, calls, pkg>>

Unmarshal ==
    /\ pc = "encoded"
    /\ decOut' = decode(doc, decOpts)
    /\ pc' = "decoded"
    /\ UNCHANGED <<hostValue, encOpts, decOpts, doc, encOut, sp, normalized, calls, pkg>>

NextRT == Marshal \/ Unmarshal

SpecRT == InitRT /\ [][NextRT]_vars

\* C1: decoding the text produced by encoding v succeeds and returns normalize(v)
C1_RoundTrip == pc = "decoded" => decOut = Ok(normalize(hostValue))

-----------------------------------------------------------------------------
(* Marshal alone, over sequences and mappings, plain and order-preserving. *)

\* the sequences of distinct elements of K
Orderings(K) ==
    {t \in TuplesUpTo(K, Cardinality(K)) : \A i, j \in 1..Len(t) : t[i] = t[j] => i = j}

\* the order-preserving mappings with keys among Keys and values in S
OMapsOf(S) == UNION {{VOMap(keys, m) : m \in [Range(keys) -> S]} : keys \in Orderings(Keys)}

FieldValues == {VInt(1), VSeq(<<VInt(1)>>)}

Mappings == MapsOf(FieldValues) \cup OMapsOf(FieldValues)

Lists == SeqsOf(Mappings \cup {VInt(1)})

ShortLists == ShortSeqsOf(Mappings \cup {VInt(1)})

\* mappings and sequences at the root, as a nested field, as an element of a
\* list array and as a field of an element of a list array
EncValues ==
    Mappings \cup Lists
    \cup {VMap([k \in {<<"a">>} |-> v]) : v \in Mappings \cup ShortLists}
    \cup {VSeq(<<v>>) : v \in ShortLists}
    \cup {VSeq(<<VMap([k \in {<<"a">>} |-> v])>>) : v \in ShortLists}

InitEnc ==
    /\ pc = "start"
    /\ hostValue \in EncValues
    /\ encOpts = DefaultEncodeOptions
    /\ decOpts = DefaultDecodeOptions
    /\ doc = <<>>
    /\ encOut = newWriter(encOpts.Indent)
    /\ decOut = Pending
    /\ sp = NoParser
    /\ normalized = Null
    /\ calls = NoCalls
    /\ pkg = PackageVars

SpecEnc == InitEnc /\ [][Marshal]_vars

\* the encoder's record of the sequences and mappings it has written
Emitted == {encOut.trace[i] : i \in 1..Len(encOut.trace)}

EmittedSeqs == {r \in Emitted : r.form \in {"empty", "inline", "tabular", "list"}}

EmittedMaps == {r \in Emitted : r.form \in {"object", "listitem", "header"}}

\* a sequence of mappings that share one key set and hold only scalars
UniformScalarMaps(v) ==
    /\ \A i \in 1..Len(v.e) : isMap(v.e[i])
    /\ \A i \in 1..Len(v.e) : DOMAIN Values(v.e[i]) = DOMAIN Values(v.e[1])
    /\ \A i \in 1..Len(v.e) : \A k \in DOMAIN Values(v.e[i]) : isPrimitive(Values(v.e[i])[k])

\* C5: every non-empty sequence of mappings with the same key set and only
\* scalar values is emitted in tabular form, at every nesting level
C5_EligibleAlwaysTabular ==
    \A r \in EmittedSeqs : (Len(r.v.e) > 0 /\ UniformScalarMaps(r.v)) => r.form = "tabular"

\* C6: a sequence is emitted in tabular form only if every element is a mapping
\* with the key set of the first element and every value is a scalar
C6_TabularOnlyIfUniform ==
    \A r \in EmittedSeqs : r.form = "tabular" => UniformScalarMaps(r.v)

\* keys lists every key of the mapping v once, in strictly ascending order
Ascending(keys) == \A i, j \in 1..Len(keys) : i < j => StrGreater(keys[j], keys[i])

ListsKeysOf(keys, v) ==
    /\ Range(keys) = DOMAIN Values(v)
    /\ Len(keys) = Cardinality(DOMAIN Values(v))

\* C7 as stated: plain mappings are written in ascending key order and
\* order-preserving mappings in insertion order, wherever they occur
C7_KeysSortedEverywhere ==
    \A r \in EmittedMaps :
        /\ r.v.t = "map" => ListsKeysOf(r.keys, r.v) /\ Ascending(r.keys)
        /\ r.v.t = "omap" => r.keys = r.v.keys

\* C7 amended: a plain mapping that is an element of a list array is written
\* with its sequence-valued keys first, ascending, then its other keys,
\* ascending; every other plain mapping in ascending key order; an
\* order-preserving mapping in insertion order
C7_KeyOrder ==
    \A r \in EmittedMaps :
        /\ (r.v.t = "map" /\ r.form # "listitem") =>
                ListsKeysOf(r.keys, r.v) /\ Ascending(r.keys)
        /\ (r.v.t = "map" /\ r.form = "listitem") =>
                LET arrays == SelectSeq(r.keys, LAMBDA k : r.v.m[k].t = "seq")
                    others == SelectSeq(r.keys, LAMBDA k : r.v.m[k].t # "seq")
                IN /\ ListsKeysOf(r.keys, r.v)
                   /\ r.keys = arrays \o others
                   /\ Ascending(arrays) /\ Ascending(others)
        /\ r.v.t = "omap" => r.keys = r.v.keys

\* a list-array element whose sequence-valued key was written before a smaller
\* scalar-valued key, and an order-preserving mapping written out of sorted order
C7_Witness ==
    /\ pc = "encoded"
    /\ \E r \in EmittedMaps : r.form = "listitem" /\ r.v.t = "map" /\ ~Ascending(r.keys)
    /\ \E r \in EmittedMaps : r.v.t = "omap" /\ Len(r.keys) > 1 /\ ~Ascending(r.keys)

-----------------------------------------------------------------------------
(* The decoder on documents: decode(doc, decOpts) for every combination of   *)
(* strict and expandPaths over three families of documents.                  *)

\* the options a caller can pass, defaults of getDecodeOptions applied
DecodeOptionSets ==
    {[Strict |-> s, IndentSize |-> defaultIndent, ExpandPaths |-> e] :
        s \in BOOLEAN, e \in {"off", "safe"}}

Text(lines) == Join(lines, <<"\n">>)

Indented(n, lines) == [i \in 1..Len(lines) |-> Repeat(<<" ">>, n) \o lines[i]]

\* a block of lines that holds the field b of a mapping, placed as a field of
\* the root mapping, of a nested mapping, and of an element of a list array
Placements == {"root", "object", "listitem"}

Place(p, block) ==
    CASE p = "root" -> Text(<<<<"a", ":", " ", "1">>>> \o block)
      [] p = "object" -> Text(<<<<"o", ":">>>> \o Indented(2, block))
      [] p = "listitem" -> Text(<<<<"l", "[", "1", "]", ":">>, <<" ", " ", "-", " ", "a", ":", " ", "1">>>> \o Indented(4, block))

\* field lines that parse
GoodFields == {<<"b", ":", " ", "1">>, <<"b", ":", " ", "\"", "x", "\"">>}

\* field lines that do not parse: unterminated quote, invalid escape, missing
\* colon, bad key (unterminated quoted key), malformed array header
BadFields == {<<"b", ":", " ", "\"", "x">>,
              <<"b", ":", " ", "\"", "\\", "q", "\"">>,
              <<"b", " ", "1">>,
              <<"\"", "b", ":", " ", "1">>,
              <<"b", "[", "2", ":", " ", "1", ",", "2">>}

FieldDocs == {Place(p, <<f>>) : p \in Placements, f \in GoodFields \cup BadFields}

\* arrays of count elements 1, 2, ... under a header that declares n elements
MaxLength == 2

Elements(count) == [i \in 1..count |-> FormatInt(i)]

Forms == {"inline", "tabular", "list"}

ArrayBlock(form, n, count) ==
    CASE form = "inline" ->
            <<<<"b", "[">> \o FormatInt(n) \o <<"]", ":", " ">> \o Join(Elements(count), <<",">>)>>
      [] form = "tabular" ->
            <<<<"b", "[">> \o FormatInt(n) \o <<"]", "{", "x", "}", ":">>>>
            \o Indented(2, Elements(count))
      [] form = "list" ->
            <<<<"b", "[">> \o FormatInt(n) \o <<"]", ":">>>>
            \o Indented(2, [i \in 1..count |-> <<"-", " ">> \o Elements(count)[i]])

ArrayDocs ==
    {Place(p, ArrayBlock(form, n, count)) :
        p \in Placements, form \in Forms, n \in 1..(MaxLength + 1), count \in 1..MaxLength}

\* "key: value" lines of a mapping whose keys share segments: the key as
\* written between the quotes if quoted, and the value the line holds
KeyLine(key, quoted, valText, val) ==
    [key |-> key, quoted |-> quoted, valText |-> valText, val |-> val]

PathLines ==
    {KeyLine(<<"a", ".", "b">>, FALSE, <<"1">>, VInt(1)),
     KeyLine(<<"a">>, FALSE, <<"2">>, VInt(2)),
     KeyLine(<<"a", ".", "b", ".", "c">>, FALSE, <<"3">>, VInt(3)),
     KeyLine(<<"a", ".", "c">>, FALSE, <<"4">>, VInt(4)),
     KeyLine(<<"a", ".", "b">>, TRUE, <<"5">>, VInt(5)),
     KeyLine(<<"a", ".", "1">>, FALSE, <<"6">>, VInt(6)),
     KeyLine(<<"a">>, FALSE, nullLiteral, Null)}

LineText(l) ==
    (IF l.quoted THEN <<"\"">> \o l.key \o <<"\"">> ELSE l.key) \o <<":", " ">> \o l.valText

\* the mappings of one to MaxLines of these lines
MaxLines == 3

PathLineSeqs == TuplesUpTo(PathLines, MaxLines) \ {<<>>}

PathText(ls) == Text([i \in 1..Len(ls) |-> LineText(ls[i])])

PathDocs == {PathText(ls) : ls \in PathLineSeqs}

\* one of these lines as the only field of the only element of a list array
ItemText(l) == Text(<<<<"l", "[", "1", "]", ":">>, <<" ", " ", "-", " ">> \o LineText(l)>>)

ItemDocs == {ItemText(l) : l \in PathLines}

\* a tabular or list array of count elements with one blank line, empty or of
\* spaces, after its first at lines' worth of rows (at = 0: right after the
\* header, at = count: after the last row), followed or not by a sibling field
BlankLines == {<<>>, <<" ", " ">>}

BodyForms == {"tabular", "list"}

InsertAt(lines, at, l) ==
    SubSeq(lines, 1, at + 1) \o <<l>> \o SubSeq(lines, at + 2, Len(lines))

BlankBlock(form, count, at, bl, follow) ==
    InsertAt(ArrayBlock(form, count, count), at, bl)
    \o (IF follow THEN <<<<"z", ":", " ", "1">>>> ELSE <<>>)

BlankPlacements == {"root", "object"}

BlankDocsOf(count) ==
    {Place(p, BlankBlock(form, count, at, bl, follow)) :
        p \in BlankPlacements, form \in BodyForms,
        at \in 0..count, bl \in BlankLines, follow \in BOOLEAN}

BlankDocs == UNION {BlankDocsOf(count) : count \in 1..MaxLength}

\* field lines whose value strconv.ParseFloat reads as a number: three that
\* are no finite number, one that is
NumberFields == {<<"b", ":", " ", "N", "a", "N">>,
                 <<"b", ":", " ", "-", "I", "n", "f">>,
                 <<"b", ":", " ", "i", "n", "f", "i", "n", "i", "t", "y">>,
                 <<"b", ":", " ", "1", ".", "5">>}

NumberDocs == {Place(p, <<f>>) : p \in Placements, f \in NumberFields}

\* key lines with nothing after the colon: a plain key, and a key with the
\* length marker [0]
EmptyFields == {<<"b", ":">>, <<"b", "[", "0", "]", ":">>}

\* the line that may follow the key line, at the indentation of the key line
FollowingLines == {<<>>, <<<<"z", ":", " ", "1">>>>}

\* the key line as the first field of an element of a list array, and as the
\* field after a first field that holds an array
ItemPlacements == {"itemfirst", "afterarray"}

PlaceInItem(p, f, follow) ==
    CASE p = "itemfirst" ->
            Text(<<<<"l", "[", "1", "]", ":">>, <<" ", " ", "-", " ">> \o f>>
                 \o (IF follow = <<>> THEN <<>> ELSE <<<<"z", ":", " ", "1">>>>))
      [] p = "afterarray" ->
            Text(<<<<"l", "[", "1", "]", ":">>, <<" ", " ", "-", " ", "c", "[", "0", "]", ":">>>>
                 \o Indented(4, <<f>> \o follow))

EmptyDocs ==
    {Place(p, <<f>> \o follow) : p \in Placements, f \in EmptyFields, follow \in FollowingLines}
    \cup {PlaceInItem(p, f, follow) : p \in ItemPlacements, f \in EmptyFields, follow \in FollowingLines}

(* Lines of a mapping at several indentations: line i holds the key         *)
(* LineKeys[i], so that a line is part of the decoded value exactly when    *)
(* its key is a key of some mapping in it.                                  *)

LineKeys == <<<<"p">>, <<"q">>, <<"r">>>>
LineIndents == {0, 2, 4}
NumberedLine(i, indent, nested) ==
    Repeat(<<" ">>, indent) \o LineKeys[i]
       \o (IF nested THEN <<":">> ELSE <<":", " ">> \o FormatInt(i))

\* the first line is "p: 1" or "p:" at the margin; one or two lines follow
LineShapes ==
    {<<[indent |-> 0, nested |-> n]>> \o rest :
        n \in BOOLEAN,
        rest \in {<<[indent |-> d, nested |-> FALSE]>> : d \in LineIndents}
                 \cup {<<[indent |-> d, nested |-> FALSE], [indent |-> e, nested |-> FALSE]>> :
                          d \in LineIndents, e \in LineIndents}}

LinesOf(shape) == [i \in 1..Len(shape) |-> NumberedLine(i, shape[i].indent, shape[i].nested)]

LineDocs == {Text(LinesOf(shape)) : shape \in LineShapes}

\* A list array l with up to three hyphen lines: the first, of the given
\* form, at the element indentation; line i > 1 is "- i" at indents[i - 1];
\* the header declares n elements.
HyphenForms == {"scalar", "field", "array"}
HyphenIndents == {2, 4}
HyphenShapes ==
    [form : HyphenForms,
     indents : {<<d>> : d \in HyphenIndents} \cup {<<d, e>> : d \in HyphenIndents, e \in HyphenIndents},
     n : 1..3]

\* the deeper hyphen lines that follow the first line directly
DeeperRun(indents) ==
    Cardinality({i \in 1..Len(indents) : \A j \in 1..i : indents[j] > 2})

FirstHyphenLine(shape) ==
    <<" ", " ", "-", " ">> \o
       (CASE shape.form = "scalar" -> <<"1">>
          [] shape.form = "field" -> <<"a", ":", " ", "1">>
          [] shape.form = "array" ->
                <<"a", "[">> \o FormatInt(DeeperRun(shape.indents)) \o <<"]", ":">>)

HyphenLines(shape) ==
    <<<<"l", "[">> \o FormatInt(shape.n) \o <<"]", ":">>, FirstHyphenLine(shape)>>
       \o [i \in 1..Len(shape.indents) |->
             Repeat(<<" ">>, shape.indents[i]) \o <<"-", " ">> \o FormatInt(i + 1)]

HyphenDocs == {Text(HyphenLines(shape)) : shape \in HyphenShapes}

\* A tabular array l with one column: row i holds the number i; the header
\* declares n rows; a field of the enclosing mapping may follow the rows.
TableShapes == [n : 1..2, rows : 1..2, trailing : BOOLEAN]
TableLines(shape) ==
    <<<<"l", "[">> \o FormatInt(shape.n) \o <<"]", "{", "a", "}", ":">>>>
       \o [i \in 1..shape.rows |-> <<" ", " ">> \o FormatInt(i)]
       \o (IF shape.trailing THEN <<<<"z", ":", " ", "x">>>> ELSE <<>>)
TableDocs == {Text(TableLines(shape)) : shape \in TableShapes}

Docs ==
    FieldDocs \cup ArrayDocs \cup PathDocs \cup ItemDocs \cup BlankDocs \cup NumberDocs \cup EmptyDocs
       \cup LineDocs \cup HyphenDocs \cup TableDocs

InitDec ==
    /\ pc = "start"
    /\ hostValue = Null
    /\ encOpts = DefaultEncodeOptions
    /\ decOpts \in DecodeOptionSets
    /\ doc \in Docs
    /\ encOut = newWriter(encOpts.Indent)
    /\ decOut = Pending
    /\ sp = NoParser
    /\ normalized = Null
    /\ calls = NoCalls
    /\ pkg = PackageVars

\* Decode / Unmarshal of a given text (toon.go): decode(input, opts)
Decode ==
    /\ pc = "start"
    /\ decOut' = decode(doc, decOpts)
    /\ pc' = "decoded"
    /\ UNCHANGED <<hostValue, encOpts, decOpts, doc, encOut, sp, normalized, calls, pkg>>

SpecDec == InitDec /\ [][Decode]_vars

\* the document holds a field line that does not parse
HasBadField == \E p \in Placements, f \in BadFields : doc = Place(p, <<f>>)

\* C3: when a line of the input fails to parse, decode returns an error and
\* no value, also when the line belongs to an element of a list array
C3_ParseFailuresAbort ==
    (pc = "decoded" /\ HasBadField) => (decOut.err # "" /\ decOut.v = Null)

\* the document holds an array whose header declares another length than the
\* number of its elements
DeclaresWrongLength ==
    \E p \in Placements, form \in Forms, n \in 1..(MaxLength + 1), count \in 1..MaxLength :
        n # count /\ doc = Place(p, ArrayBlock(form, n, count))

\* C4: in strict mode an inline, tabular or list array whose number of
\* elements differs from the declared length fails with a length mismatch
C4_StrictLengthMismatch ==
    (pc = "decoded" /\ decOpts.Strict /\ DeclaresWrongLength) => decOut.err = "length"

\* a bare identifier: a letter or '_', then letters, digits and '_'
BareIdentifier(seg) ==
    /\ seg # <<>>
    /\ isLetter(seg[1]) \/ seg[1] = "_"
    /\ \A i \in 2..Len(seg) : isLetter(seg[i]) \/ isDigit(seg[i]) \/ seg[i] = "_"

\* the key of the line is unquoted, has a dot, and all its segments are bare
Expandable(l) ==
    /\ ~l.quoted
    /\ "." \in Range(l.key)
    /\ \A seg \in Range(Split(l.key, ".")) : BareIdentifier(seg)

\* the segments under which the value of the line is stored
PathOf(l, opts) ==
    IF opts.ExpandPaths = "safe" /\ Expandable(l) THEN Split(l.key, ".") ELSE <<l.key>>

\* the mapping m with v stored under path: a segment on the way that holds no
\* mapping is replaced by a new mapping, the last segment is replaced by v
RECURSIVE Put(_, _, _)
Put(m, path, v) ==
    IF Len(path) = 1 THEN MapSet(m, path[1], v)
    ELSE LET sub == IF path[1] \in DOMAIN m /\ m[path[1]].t = "map"
                    THEN m[path[1]].m ELSE EmptyMap
         IN MapSet(m, path[1], VMap(Put(sub, Tail(path), v)))

\* the mapping of the first n lines of ls, each later line winning
RECURSIVE Built(_, _, _)
Built(ls, n, opts) ==
    IF n = 0 THEN EmptyMap
    ELSE Put(Built(ls, n - 1, opts), PathOf(ls[n], opts), ls[n].val)

\* C8: with expandPaths=safe a key is expanded into nested mappings exactly
\* when it is unquoted, dotted and made of bare identifiers; otherwise, and
\* always with expandPaths=off, it is stored as one literal key.  The key is
\* the only one of the root mapping, or of an element of a list array.
C8_ExpandExactlyWhen ==
    pc = "decoded" =>
        \A l \in PathLines :
            /\ doc = LineText(l) =>
                    decOut = Ok(VMap(Put(EmptyMap, PathOf(l, decOpts), l.val)))
            /\ doc = ItemText(l) =>
                    decOut = Ok(VMap(MapSet(EmptyMap, <<"l">>,
                                 VSeq(<<VMap(Put(EmptyMap, PathOf(l, decOpts), l.val))>>))))

\* storing v under path in m meets a segment on the way that holds a value that
\* is no mapping, or replaces a mapping at the last segment by a value that is
\* no mapping
RECURSIVE Conflicts(_, _, _)
Conflicts(m, path, v) ==
    IF path[1] \notin DOMAIN m THEN FALSE
    ELSE IF Len(path) = 1 THEN m[path[1]].t = "map" /\ v.t # "map"
    ELSE IF m[path[1]].t # "map" THEN TRUE
    ELSE Conflicts(m[path[1]].m, Tail(path), v)

HasConflict(ls, opts) ==
    \E i \in 1..Len(ls) : Conflicts(Built(ls, i - 1, opts), PathOf(ls[i], opts), ls[i].val)

\* C9: strict with expandPaths=safe, a mapping with two conflicting lines fails
\* with a path expansion conflict, whichever of the two lines comes first
C9_StrictConflictsError ==
    (pc = "decoded" /\ decOpts.Strict /\ decOpts.ExpandPaths = "safe") =>
        \A ls \in PathLineSeqs :
            (doc = PathText(ls) /\ HasConflict(ls, decOpts)) => decOut.err = "conflict"

\* C10: non-strict with expandPaths=safe, no conflict is an error: the result
\* is the mapping in which each later line has replaced the value at the
\* segment where it conflicts and every other entry is kept
C10_NonStrictLastWriteWins ==
    (pc = "decoded" /\ ~decOpts.Strict /\ decOpts.ExpandPaths = "safe") =>
        \A ls \in PathLineSeqs :
            doc = PathText(ls) => decOut = Ok(VMap(Built(ls, Len(ls), decOpts)))

\* a non-strict decode of lines that conflict, in which the mapping under "a"
\* keeps an entry next to the one the later line replaced
C10_Witness ==
    /\ pc = "decoded" /\ ~decOpts.Strict /\ decOpts.ExpandPaths = "safe"
    /\ decOut.err = ""
    /\ \E ls \in PathLineSeqs :
          /\ doc = PathText(ls)
          /\ HasConflict(ls, decOpts)
          /\ decOut.v.m[<<"a">>].t = "map"
          /\ Cardinality(DOMAIN decOut.v.m[<<"a">>].m) > 1

-----------------------------------------------------------------------------
(* Strict indentation: decode(doc, decOpts) on three-line documents whose   *)
(* second and third line carry every leading whitespace up to MaxIndent.     *)

\* the widest run of leading spaces
MaxIndent == 4

\* leading whitespace: runs of spaces, and runs that hold a tab
Indents ==
    {Repeat(<<" ">>, n) : n \in 0..MaxIndent}
    \cup {<<"\t">>, <<" ", "\t">>, <<"\t", " ">>, <<" ", " ", "\t">>}

\* the configured indent sizes (validateDecodeOptions admits every size >= 1)
IndentSizes == {defaultIndent, defaultIndent + 1}

IndentOptionSets ==
    {[Strict |-> s, IndentSize |-> n, ExpandPaths |-> "off"] :
        s \in BOOLEAN, n \in IndentSizes}

\* what follows the leading whitespace of the second line: a key that opens a
\* mapping, a field, nothing (a blank line)
SecondLines == {<<"b", ":">>, <<"b", ":", " ", "1">>, <<>>}

\* and of the third: a field, nothing, a field without its colon, a field
\* with a tab inside its value
ThirdLines == {<<"c", ":", " ", "2">>, <<>>, <<"c", " ", "2">>,
               <<"c", ":", " ", "\"", "\t", "\"">>}

IndentDoc(p1, c1, p2, c2) == Text(<<<<"a", ":">>, p1 \o c1, p2 \o c2>>)

IndentDocs ==
    {IndentDoc(p1, c1, p2, c2) :
        p1 \in Indents, c1 \in SecondLines, p2 \in Indents, c2 \in ThirdLines}

InitIndent ==
    /\ pc = "start"
    /\ hostValue = Null
    /\ encOpts = DefaultEncodeOptions
    /\ decOpts \in IndentOptionSets
    /\ doc \in IndentDocs
    /\ encOut = newWriter(encOpts.Indent)
    /\ decOut = Pending
    /\ sp = NoParser
    /\ normalized = Null
    /\ calls = NoCalls
    /\ pkg = PackageVars

SpecIndent == InitIndent /\ [][Decode]_vars

\* a non-blank line whose leading whitespace p holds a tab or has a non-zero
\* width that is not a multiple of size
BadIndent(p, c, size) ==
    /\ c # <<>>
    /\ \/ \E i \in 1..Len(p) : p[i] = "\t"
       \/ Len(p) > 0 /\ Len(p) % size # 0

\* C11: in strict mode decode fails with the indentation error, whatever else
\* is wrong with the document, exactly when a non-blank line's indentation
\* holds a tab or has a non-zero width that is no multiple of the indent size
C11_StrictIndentation ==
    (pc = "decoded" /\ decOpts.Strict) =>
        \A p1 \in Indents, c1 \in SecondLines, p2 \in Indents, c2 \in ThirdLines :
            doc = IndentDoc(p1, c1, p2, c2) =>
                (decOut.err = "indent" <=>
                    (BadIndent(p1, c1, decOpts.IndentSize) \/ BadIndent(p2, c2, decOpts.IndentSize)))

\* a strict decode under an indent size of 3 that fails on a line indented by a
\* multiple of 2, in a document without any tab and with a line that does not parse
C11_Witness ==
    /\ pc = "decoded" /\ decOpts.Strict /\ decOpts.IndentSize = defaultIndent + 1
    /\ decOut.err = "indent"
    /\ \E c1 \in SecondLines :
          doc = IndentDoc(Repeat(<<" ">>, 2), c1, Repeat(<<" ">>, 3), <<"c", " ", "2">>)

-----------------------------------------------------------------------------
(* C12: blank lines in array bodies, under SpecDec.                        *)

\* C12: a strict decode fails when the blank line lies before the array's last
\* row or element, and succeeds when it lies after it, for both forms
C12_StrictBlankLines ==
    (pc = "decoded" /\ decOpts.Strict) =>
        \A p \in BlankPlacements, form \in BodyForms, count \in 1..MaxLength,
           at \in 0..MaxLength, bl \in BlankLines, follow \in BOOLEAN :
            (at <= count /\ doc = Place(p, BlankBlock(form, count, at, bl, follow))) =>
                (decOut.err # "" <=> at < count)

\* the part of C12 about a blank line inside the body
C12_BlankInsideBodyFails ==
    (pc = "decoded" /\ decOpts.Strict) =>
        \A p \in BlankPlacements, form \in BodyForms, count \in 1..MaxLength,
           at \in 0..MaxLength, bl \in BlankLines, follow \in BOOLEAN :
            (at < count /\ doc = Place(p, BlankBlock(form, count, at, bl, follow))) =>
                decOut.err = "blank"

-----------------------------------------------------------------------------
(* Nesting depth.  decode on a root mapping, with every call of parseObject *)
(* and every return from it a step of its own: sp.frames holds one frame    *)
(* for each activation of parseObject that has not returned, so its length  *)
(* is the recursion depth of the decode call.                               *)

\* an activation of parseObject(baseIndent, ...): its result map so far, and
\* the key under which its caller will store what it returns
Frame(baseIndent, key, wasQuoted) ==
    [baseIndent |-> baseIndent, result |-> EmptyMap, key |-> key, wasQuoted |-> wasQuoted]

Top(p) == p.frames[Len(p.frames)]

\* parseKeyValueLineWithQuoteInfo reaches "Parse nested value": the key parses,
\* no '[' follows it, the colon is there, nothing follows the colon, and the
\* next line is indented deeper than baseIndent
callsParseObject(lines, pos, line, baseIndent) ==
    Bind(parseKeyWithQuoteInfo(line.content),
         LAMBDA k :
           /\ k.err = ""
           /\ peek(line.content, k.pos) # "["
           /\ Bind(expect(line.content, k.pos, ":"),
                   LAMBDA c :
                     /\ c.err = ""
                     /\ Bind(skipWhitespace(line.content, c.pos),
                             LAMBDA q : isEOF(line.content, q) \/ peek(line.content, q) = "\n"))
           /\ pos + 1 < Len(lines)
           /\ At(lines, pos + 1).indent > baseIndent)

\* the outcome of a step: the parser, the position in decode, its result
Outcome(p, at, out) == [sp |-> p, pc |-> at, out |-> out]

\* decode up to the first call of parseObject: the early returns of decode and
\* parse, and the roots that are no mapping
parseStart(input, opts) ==
    Bind(preprocessLines(input),
         LAMBDA lines :
           IF \/ input = <<>>
              \/ lines = <<>>
              \/ opts.Strict /\ validateIndentation(lines, opts) # ""
              \/ detectRootType(lines) # "object"
           THEN Outcome(NoParser, "decoded", decode(input, opts))
           ELSE Outcome([lines |-> lines, pos |-> 0, frames |-> <<Frame(0, <<>>, FALSE)>>],
                        "parsing", Pending))

\* parseObject on a line whose value does not call parseObject
objectField(p, opts) ==
    Bind(handleObjectKeyValuePair(p.lines, p.pos, opts, At(p.lines, p.pos),
                                  Top(p).baseIndent, Top(p).result),
         LAMBDA h :
           IF h.err # "" THEN Outcome(p, "decoded", Err(h.err))
           ELSE Outcome([p EXCEPT !.pos = h.pos + 1, !.frames[Len(p.frames)].result = h.m],
                        "parsing", Pending))

\* "sp.pos++" and parseObject(nextLine.indent, sp.pos)
objectCall(p) ==
    Bind(parseKeyWithQuoteInfo(At(p.lines, p.pos).content),
         LAMBDA k :
           [p EXCEPT !.pos = p.pos + 1,
                     !.frames = Append(p.frames,
                                       Frame(At(p.lines, p.pos + 1).indent, k.key, k.wasQuoted))])

\* parseObject returns its result: decode returns it if this is the root,
\* else the caller does "sp.pos--", stores it under the key, and its loop
\* goes on with "sp.pos++"
objectReturn(p, opts) ==
    IF Len(p.frames) = 1 THEN Outcome(p, "decoded", Ok(VMap(Top(p).result)))
    ELSE Bind(assignParsedKey(opts, Top(p).key, Top(p).wasQuoted, VMap(Top(p).result),
                              p.frames[Len(p.frames) - 1].result),
              LAMBDA a :
                IF a.err # "" THEN Outcome(p, "decoded", Err(a.err))
                ELSE Outcome([p EXCEPT !.frames =
                                 [i \in 1..(Len(p.frames) - 1) |->
                                     IF i = Len(p.frames) - 1
                                     THEN [p.frames[i] EXCEPT !.result = a.m]
                                     ELSE p.frames[i]]],
                             "parsing", Pending))

StepTo(o) ==
    /\ sp' = o.sp
    /\ pc' = o.pc
    /\ decOut' = IF o.pc = "decoded" THEN o.out ELSE decOut
    /\ UNCHANGED <<hostValue, encOpts, decOpts, doc, encOut, normalized, calls, pkg>>

ParseStart ==
    /\ pc = "start"
    /\ StepTo(parseStart(doc, decOpts))

AtObjectLine(action) ==
    /\ pc = "parsing"
    /\ sp.pos < Len(sp.lines)
    /\ shouldSkipObjectLine(At(sp.lines, sp.pos), Top(sp).baseIndent) = action

ObjectSkip ==
    /\ AtObjectLine("skipAndContinue")
    /\ StepTo(Outcome([sp EXCEPT !.pos = sp.pos + 1], "parsing", Pending))

ObjectField ==
    /\ AtObjectLine("parseThisLine")
    /\ ~callsParseObject(sp.lines, sp.pos, At(sp.lines, sp.pos), Top(sp).baseIndent)
    /\ StepTo(objectField(sp, decOpts))

ObjectCall ==
    /\ AtObjectLine("parseThisLine")
    /\ callsParseObject(sp.lines, sp.pos, At(sp.lines, sp.pos), Top(sp).baseIndent)
    /\ StepTo(Outcome(objectCall(sp), "parsing", Pending))

ObjectReturn ==
    /\ pc = "parsing"
    /\ sp.pos >= Len(sp.lines) \/ AtObjectLine("stopParsing")
    /\ StepTo(objectReturn(sp, decOpts))

NextDepth == ParseStart \/ ObjectSkip \/ ObjectField \/ ObjectCall \/ ObjectReturn

\* parts[lo] \o ... \o parts[hi]
RECURSIVE Concat(_, _, _)
Concat(parts, lo, hi) ==
    IF lo > hi THEN <<>>
    ELSE IF lo = hi THEN parts[lo]
    ELSE Concat(parts, lo, (lo + hi) \div 2) \o Concat(parts, (lo + hi) \div 2 + 1, hi)

\* depth mappings inside each other below the root, one space of indentation
\* per level: "a:" / " a:" / "  a:" ... and the field "a: 1" in the innermost
NestedMappings(depth) ==
    Concat([k \in 1..(depth + 1) |->
               [i \in 1..(k - 1) |-> " "]
               \o (IF k <= depth THEN <<"a", ":", "\n">> ELSE <<"a", ":", " ", "1">>)],
           1, depth + 1)

\* the value it holds
RECURSIVE NestedValue(_)
NestedValue(depth) ==
    VMap(MapSet(EmptyMap, <<"a">>, IF depth = 0 THEN VInt(1) ELSE NestedValue(depth - 1)))

\* the depths of nesting: a few shallow ones, and one beyond the limit
MaxDepth == 3

Depths == (1..MaxDepth) \cup {nestedLinesLimit + 1}

DepthDocs == {NestedMappings(d) : d \in Depths}

\* one space of indentation per level is valid under an indent size of 1
DepthOptionSets ==
    {[Strict |-> s, IndentSize |-> 1, ExpandPaths |-> e] : s \in BOOLEAN, e \in {"off", "safe"}}

InitDepth ==
    /\ pc = "start"
    /\ hostValue = Null
    /\ encOpts = DefaultEncodeOptions
    /\ decOpts \in DepthOptionSets
    /\ doc \in DepthDocs \cup FieldDocs \cup BlankDocs \cup PathDocs
    /\ encOut = newWriter(encOpts.Indent)
    /\ decOut = Pending
    /\ sp = NoParser
    /\ normalized = Null
    /\ calls = NoCalls
    /\ pkg = PackageVars

SpecDepth == InitDepth /\ [][NextDepth]_vars

\* the steps compute what decode computes (on the documents shallow enough
\* for decode to be evaluated in one piece)
StepsAgreeWithDecode ==
    (pc = "decoded" /\ \A d \in Depths : d > MaxDepth => doc # NestedMappings(d)) =>
        decOut = decode(doc, decOpts)

\* C13: decode fails on every document nested deeper than the limit
C13_DeepNestingRejected ==
    pc = "decoded" =>
        \A d \in Depths : (d > nestedLinesLimit /\ doc = NestedMappings(d)) => decOut.err # ""

\* and the recursion depth of a decode call stays within the limit (the root
\* mapping's activation of parseObject not counted)
C13_RecursionBounded == Len(sp.frames) <= nestedLinesLimit + 1

\* what decode returns for the mappings nested beyond the limit: the value
C13_DeepNestingDecodes ==
    pc = "decoded" =>
        \A d \in Depths : doc = NestedMappings(d) => decOut = Ok(NestedValue(d))

-----------------------------------------------------------------------------
(* normalize on host values (utils.go): applied once, then applied again to *)
(* its own result.                                                          *)

\* the host integers of the model lie within MaxOffset of 0, of 2^63 and of 2^64
MaxOffset == 1

Offsets == (0 - MaxOffset)..MaxOffset

\* int, int8 .. int64: the values from math.MinInt64 to math.MaxInt64
SignedInts ==
    {VInt(n) : n \in Offsets}
    \cup {VInt64(1, n) : n \in {k \in Offsets : k < 0}}
    \cup {VInt64(-1, n) : n \in {k \in Offsets : k >= 0}}

\* uint, uint8 .. uint64: the values from 0 to math.MaxUint64
UnsignedInts ==
    {VUint(0, n) : n \in {k \in Offsets : k >= 0}}
    \cup {VUint(1, n) : n \in Offsets}
    \cup {VUint(2, n) : n \in {k \in Offsets : k < 0}}

HostFloats ==
    {VFloat(15, 1), VFloat(-25, 1), VFloat(2, 0), VNaN, VInf(FALSE), VInf(TRUE), VNegZero}

HostScalars ==
    {Null, VBool(TRUE), VStr(<<"x">>), VOther} \cup SignedInts \cup UnsignedInts \cup HostFloats

\* the host values over the scalars S: scalars, sequences and mappings of
\* scalars, and the values nested one level down
HostNested(S) == S \cup MapsOf(S) \cup OMapsOf(S) \cup ShortSeqsOf({VInt(1), VNaN, VUint(2, -1)})

HostValues(S) ==
    S \cup SeqsOf(S) \cup MapsOf(S) \cup OMapsOf(S)
    \cup {VSeq(<<v>>) : v \in HostNested(S)}
    \cup {VMap([k \in {<<"a">>} |-> v]) : v \in HostNested(S)}
    \cup {VOMap(<<<<"a">>>>, [k \in {<<"a">>} |-> v]) : v \in HostNested(S)}

InitNorm ==
    /\ pc = "start"
    /\ hostValue \in HostValues(HostScalars)
    /\ encOpts = DefaultEncodeOptions
    /\ decOpts = DefaultDecodeOptions
    /\ doc = <<>>
    /\ encOut = newWriter(encOpts.Indent)
    /\ decOut = Pending
    /\ sp = NoParser
    /\ normalized = Null
    /\ calls = NoCalls
    /\ pkg = PackageVars

\* normalize(v) of the host value
Normalize ==
    /\ pc = "start"
    /\ normalized' = normalize(hostValue)
    /\ pc' = "normalized"
    /\ UNCHANGED <<hostValue, encOpts, decOpts, doc, encOut, decOut, sp, calls, pkg>>

\* normalize applied to the value normalize returned
Renormalize ==
    /\ pc = "normalized"
    /\ normalized' = normalize(normalized)
    /\ pc' = "renormalized"
    /\ UNCHANGED <<hostValue, encOpts, decOpts, doc, encOut, decOut, sp, calls, pkg>>

NextNorm == Normalize \/ Renormalize

SpecNorm == InitNorm /\ [][NextNorm]_vars

\* v holds a NaN or an infinity
RECURSIVE HoldsNaNOrInf(_)
HoldsNaNOrInf(v) ==
    CASE v.t \in {"nan", "inf"} -> TRUE
      [] v.t = "seq" -> \E i \in 1..Len(v.e) : HoldsNaNOrInf(v.e[i])
      [] v.t = "map" -> \E k \in DOMAIN v.m : HoldsNaNOrInf(v.m[k])
      [] v.t = "omap" -> \E k \in DOMAIN v.om : HoldsNaNOrInf(v.om[k])
      [] OTHER -> FALSE

\* no value returned by normalize holds a NaN or an infinity
NormalizedIsFinite == pc # "start" => ~HoldsNaNOrInf(normalized)

-----------------------------------------------------------------------------
(* C14: the values normalize and decode return hold no NaN and no infinity. *)

\* C14: no value returned by decode holds a Float64 that is NaN or positive
\* or negative Infinity (NormalizedIsFinite states the same of normalize)
C14_NoNaNOrInfinity == pc = "decoded" => ~HoldsNaNOrInf(decOut.v)

\* a document whose only numbers are finite decodes to a finite value
C14_FiniteNumbersStayFinite ==
    (pc = "decoded" /\ doc \notin NumberDocs) => ~HoldsNaNOrInf(decOut.v)

-----------------------------------------------------------------------------
(* C15, C16: normalize on host integers, and normalize applied twice.       *)

IsHostInteger(v) == v.t \in {"int", "uint"}

\* the multiple of 2^63 in the value of the integer v
HighPart(v) == IF "hi" \in DOMAIN v THEN v.hi ELSE 0

\* the value of the integer v is at most math.MaxInt64
FitsInt64(v) == HighPart(v) <= 0 \/ (HighPart(v) = 1 /\ v.n < 0)

\* C15: normalize maps a host integer that fits in Int64 to the Int64 of the
\* same value, and one that does not fit to the Float64 of that value
C15_HostIntegers ==
    (pc = "normalized" /\ IsHostInteger(hostValue)) =>
        normalized = IF FitsInt64(hostValue) THEN VInt64(HighPart(hostValue), hostValue.n)
                     ELSE VBigFloat(HighPart(hostValue), hostValue.n)

\* a host integer that fits in Int64 keeps its value
C15_FittingIntegersKeepValue ==
    (pc = "normalized" /\ IsHostInteger(hostValue) /\ FitsInt64(hostValue)) =>
        normalized = VInt64(HighPart(hostValue), hostValue.n)

\* an unsigned host integer above math.MaxInt64 becomes the Int64 that is
\* 2^64 less
C15_LargeUnsignedWraps ==
    (pc = "normalized" /\ IsHostInteger(hostValue) /\ ~FitsInt64(hostValue)) =>
        normalized = VInt64(HighPart(hostValue) - 2, hostValue.n)

\* C16: normalize(normalize(v)) equals normalize(v) for every host value v
C16_NormalizeIdempotent == pc = "renormalized" => normalized = normalize(hostValue)

\* normalize has been applied twice to a value that the first application
\* changed in a nested position
C16_Witness ==
    /\ pc = "renormalized"
    /\ hostValue.t = "omap"
    /\ \E k \in DOMAIN hostValue.om : hostValue.om[k].t = "seq" /\ normalize(hostValue.om[k]) # hostValue.om[k]

-----------------------------------------------------------------------------
(* Marshal of a mapping with flattenPaths enabled, then Unmarshal with      *)
(* expandPaths "safe" (toon.go).                                            *)

\* a mapping of the universe holds at most MaxFields keys
MaxFields == 2

FlatKeys == {<<"a">>, <<"b">>, <<"a", ".", "b">>}

FlatLeaves == {VInt(1), VInt(2)}

FlatMapsOf(S) ==
    {VMap(m) : m \in UNION {[K -> S] : K \in {J \in SUBSET FlatKeys : Cardinality(J) <= MaxFields}}}

\* mappings over the leaves S nested up to three deep
FlatValues(S) ==
    FlatMapsOf(S \cup FlatMapsOf(S))
    \cup {VMap([k \in {<<"a">>} |-> v]) : v \in FlatMapsOf(S \cup FlatMapsOf(S))}

\* FlattenDepth as the caller sets it: -1 for not set, 0, and a limit
FlattenDepths == {-1, 0, 2}

FlattenOptionSets ==
    {[DefaultEncodeOptions EXCEPT !.FlattenPaths = TRUE, !.FlattenDepth = d, !.Strict = s] :
        d \in FlattenDepths, s \in BOOLEAN}

\* two orders in which a range over a map may visit the keys, one the reverse
\* of the other: of any two keys, each is visited last in one of them
RangeOrders ==
    {sortStrings(SetToSeq(FlatKeys)),
     [i \in 1..Cardinality(FlatKeys) |->
        sortStrings(SetToSeq(FlatKeys))[Cardinality(FlatKeys) + 1 - i]]}

InitFlat ==
    /\ pc = "start"
    /\ hostValue \in FlatValues(FlatLeaves)
    /\ encOpts \in FlattenOptionSets
    /\ decOpts = [DefaultDecodeOptions EXCEPT !.ExpandPaths = "safe"]
    /\ doc = <<>>
    /\ encOut = newWriter(encOpts.Indent)
    /\ decOut = Pending
    /\ sp = NoParser
    /\ normalized = Null
    /\ calls = NoCalls
    /\ pkg = PackageVars

\* Marshal(v, opts) of a mapping v
MarshalMap ==
    /\ pc = "start"
    /\ \E order \in RangeOrders :
          encOut' = encodeValueMap(newWriter(getEncodeOptions(encOpts).Indent), <<>>,
                                   normalize(hostValue), 0, getEncodeOptions(encOpts), order)
    /\ doc' = encOut'.buf
    /\ pc' = IF encOut'.err = "" THEN "encoded" ELSE "failed"
    /\ UNCHANGED <<hostValue, encOpts, decOpts, decOut, sp, normalized, calls, pkg>>

NextFlat == MarshalMap \/ Unmarshal

SpecFlat == InitFlat /\ [][NextFlat]_vars

\* no key of v, at any level, holds a dot
RECURSIVE DotFree(_)
DotFree(v) ==
    isMap(v) => \A k \in DOMAIN Values(v) : ~Contains(k, <<".">>) /\ DotFree(Values(v)[k])

\* v holds a non-empty mapping as the value of a key
HasNestedFields(v) == \E k \in DOMAIN Values(v) : isMap(Values(v)[k]) /\ DOMAIN Values(Values(v)[k]) # {}

\* every line of the text is a field of the root mapping
AllLinesAtRoot(text) == \A i \in 1..Len(text) : text[i] = "\n" => text[i + 1] # " "

\* C17: with flattenPaths enabled and flattenDepth 0, nested mappings are
\* folded into dotted keys whatever the number of segments
C17_ZeroDepthIsUnlimited ==
    (pc = "encoded" /\ encOpts.FlattenPaths /\ encOpts.FlattenDepth = 0 /\ DotFree(hostValue))
        => AllLinesAtRoot(doc)

\* with flattenDepth 0 nothing is folded: the text is that of the encoder
\* without flattenPaths
C17_ZeroDepthFoldsNothing ==
    (pc = "encoded" /\ encOpts.FlattenPaths /\ encOpts.FlattenDepth = 0)
        => doc = encode(normalize(hostValue), DefaultEncodeOptions).buf

\* with flattenDepth not set (-1) the folding has no limit
C17_UnsetDepthIsUnlimited ==
    (pc = "encoded" /\ encOpts.FlattenPaths /\ encOpts.FlattenDepth = -1 /\ DotFree(hostValue))
        => AllLinesAtRoot(doc)

-----------------------------------------------------------------------------
(* C18: a flattened path that meets a literal key.                          *)

\* the entries of v: the dotted path and the value of every scalar and every
\* empty mapping in v
RECURSIVE Entries(_, _)
Entries(v, path) ==
    IF isMap(v) /\ DOMAIN Values(v) # {}
    THEN UNION {Entries(Values(v)[k], buildFullPath(path, k)) : k \in DOMAIN Values(v)}
    ELSE {<<path, v>>}

\* the dotted paths of the keys below the key j of the map m, at any depth
RECURSIVE PathsBelow(_, _)
PathsBelow(v, path) ==
    IF ~isMap(v) THEN {}
    ELSE UNION {{buildFullPath(path, k)} \cup PathsBelow(Values(v)[k], buildFullPath(path, k))
                : k \in DOMAIN Values(v)}

\* a key of the mapping v equals the dotted path of a key nested below
\* another key of v
CollidesAt(v) ==
    isMap(v) /\ \E k, j \in DOMAIN Values(v) : k \in PathsBelow(Values(v)[j], j)

\* the options fold the fields of the root mapping's nested mappings
Folds(opts) == opts.FlattenPaths /\ (opts.FlattenDepth = -1 \/ opts.FlattenDepth >= 2)

\* the collision is in the root mapping
RootCollision == CollidesAt(hostValue)

\* the collision is in a mapping nested in the root mapping, that has none
NestedCollision ==
    /\ ~CollidesAt(hostValue)
    /\ \E k \in DOMAIN Values(hostValue) : CollidesAt(Values(hostValue)[k])

\* the mapping that Marshal wrote in place of the root mapping
Flattened == encOut.trace[1].v

\* C18: when a prospective flattened path equals a literal key, strict mode
\* fails with an EncodeError, and non-strict mode keeps every original entry
C18_CollisionHandling ==
    (pc \in {"encoded", "failed"} /\ Folds(encOpts) /\ (RootCollision \/ NestedCollision)) =>
        IF encOpts.Strict THEN pc = "failed" /\ encOut.err = "collision"
        ELSE pc = "encoded" /\ Entries(Flattened, <<>>) = Entries(hostValue, <<>>)

\* strict mode fails on a collision at either level
C18_StrictCollisionFails ==
    (pc \in {"encoded", "failed"} /\ Folds(encOpts) /\ (RootCollision \/ NestedCollision)
     /\ encOpts.Strict) => (pc = "failed" /\ encOut.err = "collision")

\* non-strict mode writes the root mapping unchanged when the collision is in
\* the root mapping
C18_RootCollisionStaysNested ==
    (pc \in {"encoded", "failed"} /\ Folds(encOpts) /\ RootCollision /\ ~encOpts.Strict) =>
        (pc = "encoded" /\ Flattened = hostValue)

\* without a collision every original entry is present under its dotted path
C18_NoCollisionKeepsEntries ==
    (pc = "encoded" /\ ~RootCollision /\ ~NestedCollision) =>
        Entries(Flattened, <<>>) = Entries(hostValue, <<>>)

-----------------------------------------------------------------------------
(* C19: flattening on encode, path expansion on decode.                     *)

\* C19: decoding with expandPaths "safe" the text that Marshal produces with
\* flattenPaths enabled returns normalize(v), for every mapping v
C19_ExpansionInvertsFlattening == pc = "decoded" => decOut = Ok(normalize(hostValue))

\* the round trip holds for the mappings none of whose keys holds a dot
C19_DotFreeRoundTrip ==
    (pc = "decoded" /\ DotFree(hostValue)) => decOut = Ok(normalize(hostValue))

-----------------------------------------------------------------------------
(* C20: key lines with nothing after the colon.                             *)

Absent == [t |-> "absent"]

\* the value of the key k of the mapping v, Absent if v is no mapping with k
FieldOf(v, k) == IF isMap(v) /\ k \in DOMAIN Values(v) THEN Values(v)[k] ELSE Absent

\* the first element of the sequence v, Absent if v is no sequence with one
FirstOf(v) == IF isList(v) /\ Len(v.e) >= 1 THEN v.e[1] ELSE Absent

\* the mapping that holds the key line placed at p
HolderAt(p, v) ==
    CASE p = "root" -> v
      [] p = "object" -> FieldOf(v, <<"o">>)
      [] p \in {"listitem", "itemfirst", "afterarray"} -> FirstOf(FieldOf(v, <<"l">>))

\* the value the key line f stands for
EmptyValueOf(f) == IF f = <<"b", ":">> THEN VMap(EmptyMap) ELSE VSeq(<<>>)

\* the document is the key line f placed at p, followed by follow
IsEmptyDoc(p, f, follow) ==
    IF p \in Placements THEN doc = Place(p, <<f>> \o follow) ELSE doc = PlaceInItem(p, f, follow)

\* C20: a key line with nothing after its colon and no more-indented line
\* after it decodes to an empty mapping, and to an empty sequence when the
\* key carries the length marker [0]
C20_EmptyValueKeys ==
    \A p \in Placements \cup ItemPlacements, f \in EmptyFields, follow \in FollowingLines :
        (pc = "decoded" /\ IsEmptyDoc(p, f, follow)) =>
            (decOut.err = "" /\ FieldOf(HolderAt(p, decOut.v), <<"b">>) = EmptyValueOf(f))

\* the same for the key lines that are no field of an element of a list array
C20_EmptyValueKeysOfMappings ==
    \A p \in {"root", "object"}, f \in EmptyFields, follow \in FollowingLines :
        (pc = "decoded" /\ IsEmptyDoc(p, f, follow)) =>
            (decOut.err = "" /\ FieldOf(HolderAt(p, decOut.v), <<"b">>) = EmptyValueOf(f))

\* ... and for the fields of an element that follow a first field with a
\* scalar value
C20_EmptyValueKeysAfterScalar ==
    \A f \in EmptyFields, follow \in FollowingLines :
        (pc = "decoded" /\ IsEmptyDoc("listitem", f, follow)) =>
            (decOut.err = "" /\ FieldOf(HolderAt("listitem", decOut.v), <<"b">>) = EmptyValueOf(f))

-----------------------------------------------------------------------------
(* Concurrent calls (api.go).  The caller's option structs, input value and *)
(* input text and the package-level variables are the memory the calls     *)
(* share; calls[g] is the frame of the call goroutine g makes: the step it *)
(* is at, the structs and values it allocated, and what it returned.       *)

NumGoroutines == 2
Goroutines == 1..NumGoroutines

IdleCall == [op |-> "", at |-> "idle", opts |-> Null, v |-> Null, out |-> Null]

validateEncodeOptions(opts) ==
    IF opts.Indent < 0 THEN "indent must be non-negative"
    ELSE IF opts.Delimiter # <<>> /\ opts.Delimiter \notin pkg.validDelimiters
    THEN "invalid delimiter"
    ELSE ""

validateDecodeOptions(opts) ==
    IF opts.IndentSize < 1 THEN "indent_size must be positive" ELSE ""

\* getDecodeOptions of a non-nil opts
getDecodeOptions(opts) ==
    [opts EXCEPT !.IndentSize = IF @ = 0 THEN defaultIndent ELSE @,
                 !.ExpandPaths = IF @ = "" THEN "off" ELSE @]

\* getEncodeOptions that fills the defaults into the struct of the caller
getEncodeOptionsInPlace(opts) ==
    [result |-> getEncodeOptions(opts), opts |-> getEncodeOptions(opts)]

\* getEncodeOptions in memory: the struct it allocates and returns, and the
\* struct opts points to as the call leaves it
getEncodeOptionsCall(opts) ==
    [result |-> getEncodeOptions(opts), opts |-> opts]

\* encode(normalized, opts) of Marshal: encodeValue, with encodeValueMap for a
\* mapping; the keys of a map[string]Value are ranged over in sorted order
encodeCall(v, opts) ==
    IF isMap(v)
    THEN encodeValueMap(newWriter(opts.Indent), <<>>, v, 0, opts,
                        sortStrings(SetToSeq(DOMAIN Values(v))))
    ELSE encode(v, opts)

\* what Marshal(v, opts) returns when no other call runs
MarshalAlone(v, opts) ==
    IF validateEncodeOptions(getEncodeOptions(opts)) # ""
    THEN [err |-> validateEncodeOptions(getEncodeOptions(opts)), buf |-> <<>>]
    ELSE Bind(encodeCall(normalize(v), getEncodeOptions(opts)),
              LAMBDA w : [err |-> w.err, buf |-> IF w.err = "" THEN w.buf ELSE <<>>])

\* what Unmarshal(data, &v, opts) returns when no other call runs
UnmarshalAlone(data, opts) ==
    IF validateDecodeOptions(getDecodeOptions(opts)) # ""
    THEN Err(validateDecodeOptions(getDecodeOptions(opts)))
    ELSE decode(data, getDecodeOptions(opts))

ConcValues ==
    {VMap([k \in {<<"a">>} |-> VMap([j \in {<<"b">>} |-> VInt(1)])]),
     VOMap(<<<<"b">>, <<"a">>>>, [k \in {<<"a">>, <<"b">>} |-> VFloat(1, 0)]),
     VSeq(<<VOMap(<<<<"b">>, <<"a">>>>, [k \in {<<"a">>, <<"b">>} |-> VInt(1)]),
            VOMap(<<<<"a">>, <<"b">>>>, [k \in {<<"a">>, <<"b">>} |-> VInt(2)])>>),
     VSeq(<<VInt(1), VStr(<<"x", "|", "y">>)>>)}

ConcEncodeOptions ==
    {[Indent |-> 0, Delimiter |-> <<>>, LengthMarker |-> <<>>,
      FlattenPaths |-> TRUE, FlattenDepth |-> -1, Strict |-> FALSE],
     [DefaultEncodeOptions EXCEPT !.Delimiter = pipe, !.Indent = 4],
     [DefaultEncodeOptions EXCEPT !.Delimiter = <<";">>],
     [DefaultEncodeOptions EXCEPT !.Indent = -1]}

ConcDocs ==
    {Text(<<<<"a", ".", "b", ":", " ", "1">>, <<" ", " ", " ", "c", ":", " ", "2">>>>),
     Text(<<<<"x", "[", "2", "]", ":", " ", "1", ",", "2">>>>)}

ConcDecodeOptions ==
    {[Strict |-> TRUE, IndentSize |-> 0, ExpandPaths |-> ""],
     [Strict |-> FALSE, IndentSize |-> 4, ExpandPaths |-> "safe"],
     [Strict |-> FALSE, IndentSize |-> -1, ExpandPaths |-> "off"]}

InitConc ==
    /\ pc = "start"
    /\ hostValue \in ConcValues
    /\ encOpts \in ConcEncodeOptions
    /\ decOpts \in ConcDecodeOptions
    /\ doc \in ConcDocs
    /\ encOut = newWriter(defaultIndent)
    /\ decOut = Pending
    /\ sp = NoParser
    /\ normalized = Null
    /\ calls = [g \in Goroutines |-> IdleCall]
    /\ pkg = PackageVars

\* goroutine g calls Marshal(hostValue, &encOpts) or Unmarshal(doc, &v, &decOpts)
Call(g) ==
    /\ calls[g].at = "idle"
    /\ \E op \in {"Marshal", "Unmarshal"} :
          calls' = [calls EXCEPT ![g] = [@ EXCEPT !.op = op, !.at = "options"]]
    /\ UNCHANGED <<pc, hostValue, encOpts, decOpts, doc, encOut, decOut, sp, normalized, pkg>>

\* Marshal: opts = getEncodeOptions(opts); validateEncodeOptions(opts)
MarshalOptions(g) ==
    /\ calls[g].op = "Marshal" /\ calls[g].at = "options"
    /\ encOpts' = getEncodeOptionsCall(encOpts).opts
    /\ calls' = [calls EXCEPT ![g] =
          Bind(getEncodeOptionsCall(encOpts).result,
               LAMBDA opts :
                  IF validateEncodeOptions(opts) # ""
                  THEN [@ EXCEPT !.at = "returned",
                                 !.out = [err |-> validateEncodeOptions(opts), buf |-> <<>>]]
                  ELSE [@ EXCEPT !.at = "normalize", !.opts = opts])]
    /\ UNCHANGED <<pc, hostValue, decOpts, doc, encOut, decOut, sp, normalized, pkg>>

\* Marshal: normalized := normalize(v), a copy of the input of the caller
MarshalNormalize(g) ==
    /\ calls[g].op = "Marshal" /\ calls[g].at = "normalize"
    /\ calls' = [calls EXCEPT ![g] = [@ EXCEPT !.at = "encode", !.v = normalize(hostValue)]]
    /\ UNCHANGED <<pc, hostValue, encOpts, decOpts, doc, encOut, decOut, sp, normalized, pkg>>

\* Marshal: encode(normalized, opts) and the return
MarshalEncode(g) ==
    /\ calls[g].op = "Marshal" /\ calls[g].at = "encode"
    /\ calls' = [calls EXCEPT ![g] =
          Bind(encodeCall(calls[g].v, calls[g].opts),
               LAMBDA w : [@ EXCEPT !.at = "returned",
                                    !.out = [err |-> w.err,
                                             buf |-> IF w.err = "" THEN w.buf ELSE <<>>]])]
    /\ UNCHANGED <<pc, hostValue, encOpts, decOpts, doc, encOut, decOut, sp, normalized, pkg>>

\* Unmarshal: opts = getDecodeOptions(opts); validateDecodeOptions(opts)
UnmarshalOptions(g) ==
    /\ calls[g].op = "Unmarshal" /\ calls[g].at = "options"
    /\ calls' = [calls EXCEPT ![g] =
          Bind(getDecodeOptions(decOpts),
               LAMBDA opts :
                  IF validateDecodeOptions(opts) # ""
                  THEN [@ EXCEPT !.at = "returned", !.out = Err(validateDecodeOptions(opts))]
                  ELSE [@ EXCEPT !.at = "decode", !.opts = opts])]
    /\ UNCHANGED <<pc, hostValue, encOpts, decOpts, doc, encOut, decOut, sp, normalized, pkg>>

\* Unmarshal: decode(string(data), opts) and the return
UnmarshalDecode(g) ==
    /\ calls[g].op = "Unmarshal" /\ calls[g].at = "decode"
    /\ calls' = [calls EXCEPT ![g] =
          [@ EXCEPT !.at = "returned", !.out = decode(doc, calls[g].opts)]]
    /\ UNCHANGED <<pc, hostValue, encOpts, decOpts, doc, encOut, decOut, sp, normalized, pkg>>

NextConc ==
    \E g \in Goroutines :
       \/ Call(g)
       \/ MarshalOptions(g)
       \/ MarshalNormalize(g)
       \/ MarshalEncode(g)
       \/ UnmarshalOptions(g)
       \/ UnmarshalDecode(g)

SpecConc == InitConc /\ [][NextConc]_vars

\* the call of goroutine g has returned
Returned(g) == calls[g].at = "returned"

-----------------------------------------------------------------------------
(* OrderedMap (primitives_test.go): hostValue is the map, calls the Set and *)
(* Delete calls made on it so far.                                          *)

MaxCalls == 4
OMapKeys == {<<"a">>, <<"b">>, <<"c">>}
OMapValues == {Null, VInt(1), VInt(2)}

NewOrderedMap == VOMap(<<>>, EmptyMap)

\* OrderedMap.Set that appends the key whether or not it is present
OrderedMapSetAppendAlways(o, key, value) ==
    VOMap(Append(o.keys, key), MapSet(o.om, key, value))

OrderedMapSet(o, key, value) ==
    VOMap(IF key \notin DOMAIN o.om THEN Append(o.keys, key) ELSE o.keys,
          MapSet(o.om, key, value))

\* the index the loop of Delete breaks at: the first i with o.keys[i] = key,
\* or 0 when the loop ends without a match
firstKeyIndex(keys, key) ==
    IF \E i \in 1..Len(keys) : keys[i] = key
    THEN CHOOSE i \in 1..Len(keys) :
            keys[i] = key /\ \A j \in 1..(i - 1) : keys[j] # key
    ELSE 0

OrderedMapDelete(o, key) ==
    IF key \notin DOMAIN o.om THEN o
    ELSE Bind(firstKeyIndex(o.keys, key),
              LAMBDA i :
                 VOMap(IF i = 0 THEN o.keys
                       ELSE SubSeq(o.keys, 1, i - 1) \o SubSeq(o.keys, i + 1, Len(o.keys)),
                       [k \in (DOMAIN o.om) \ {key} |-> o.om[k]]))

OrderedMapKeys(o) == o.keys

OrderedMapLen(o) == Len(o.keys)

\* the second result of OrderedMap.Get
OrderedMapHas(o, key) == key \in DOMAIN o.om

InitOMap ==
    /\ pc = "start"
    /\ hostValue = NewOrderedMap
    /\ encOpts = DefaultEncodeOptions
    /\ decOpts = DefaultDecodeOptions
    /\ doc = <<>>
    /\ encOut = newWriter(defaultIndent)
    /\ decOut = Pending
    /\ sp = NoParser
    /\ normalized = Null
    /\ calls = NoCalls
    /\ pkg = PackageVars

Set ==
    /\ Len(calls) < MaxCalls
    /\ \E key \in OMapKeys, value \in OMapValues :
          /\ hostValue' = OrderedMapSet(hostValue, key, value)
          /\ calls' = Append(calls, [op |-> "Set", key |-> key, value |-> value])
    /\ UNCHANGED <<pc, encOpts, decOpts, doc, encOut, decOut, sp, normalized, pkg>>

Delete ==
    /\ Len(calls) < MaxCalls
    /\ \E key \in OMapKeys :
          /\ hostValue' = OrderedMapDelete(hostValue, key)
          /\ calls' = Append(calls, [op |-> "Delete", key |-> key, value |-> Null])
    /\ UNCHANGED <<pc, encOpts, decOpts, doc, encOut, decOut, sp, normalized, pkg>>

NextOMap == Set \/ Delete

SpecOMap == InitOMap /\ [][NextOMap]_vars

\* the call that inserted key, when key is present after the calls h: the
\* first Set of key with no Delete of key after it; 0 when key is absent
InsertedAt(h, key) ==
    Bind({i \in 1..Len(h) :
            /\ h[i].op = "Set" /\ h[i].key = key
            /\ \A j \in i..Len(h) : ~(h[j].op = "Delete" /\ h[j].key = key)},
         LAMBDA S : IF S = {} THEN 0 ELSE CHOOSE i \in S : \A j \in S : i <= j)

\* the value of the last Set of key among the calls h
LastSet(h, key) ==
    h[CHOOSE i \in 1..Len(h) :
         /\ h[i].op = "Set" /\ h[i].key = key
         /\ \A j \in (i + 1)..Len(h) : ~(h[j].op = "Set" /\ h[j].key = key)].value

\* C22: after any sequence of Set and Delete calls on a new OrderedMap,
\* Keys() lists each present key exactly once, in the order of the calls
\* that inserted them; Get finds exactly the listed keys, with the value last
\* set; Len() is the number of stored values.
C22_KeysInInsertionOrder ==
    /\ \A key \in OMapKeys :
          (InsertedAt(calls, key) # 0)
             <=> (\E i \in 1..Len(OrderedMapKeys(hostValue)) : OrderedMapKeys(hostValue)[i] = key)
    /\ \A i, j \in 1..Len(OrderedMapKeys(hostValue)) :
          i < j => InsertedAt(calls, OrderedMapKeys(hostValue)[i])
                      < InsertedAt(calls, OrderedMapKeys(hostValue)[j])
    /\ \A key \in OMapKeys :
          /\ OrderedMapHas(hostValue, key) <=> InsertedAt(calls, key) # 0
          /\ OrderedMapHas(hostValue, key) => Get(hostValue, key) = LastSet(calls, key)
    /\ OrderedMapLen(hostValue) = Cardinality(DOMAIN Values(hostValue))

\* a was set, b was set, a was set again and keeps the first place, and a
\* key deleted and set again went to the end
C22_Witness ==
    /\ Len(calls) = MaxCalls
    /\ calls[1] = [op |-> "Set", key |-> <<"a">>, value |-> VInt(1)]
    /\ calls[2] = [op |-> "Set", key |-> <<"b">>, value |-> VInt(1)]
    /\ calls[3] = [op |-> "Delete", key |-> <<"a">>, value |-> Null]
    /\ calls[4] = [op |-> "Set", key |-> <<"a">>, value |-> VInt(2)]
    /\ OrderedMapKeys(hostValue) = <<<<"b">>, <<"a">>>>

-----------------------------------------------------------------------------
(* Whether each line of a document is part of the decoded value.           *)

\* the keys of the mappings in v
RECURSIVE KeysIn(_)
KeysIn(v) ==
    IF isMap(v)
    THEN (DOMAIN Values(v)) \cup UNION {KeysIn(Values(v)[k]) : k \in DOMAIN Values(v)}
    ELSE IF isList(v) THEN UNION {KeysIn(v.e[i]) : i \in 1..Len(v.e)}
    ELSE {}

\* every line of the document is under the line before it, or at the
\* indentation of an earlier line with only deeper lines between
WellNested(shape) ==
    \A i \in 2..Len(shape) :
       \/ shape[i].indent = shape[i - 1].indent + defaultIndent /\ shape[i - 1].nested
       \/ \E j \in 1..(i - 1) :
             /\ shape[j].indent = shape[i].indent
             /\ \A k \in (j + 1)..(i - 1) : shape[k].indent > shape[i].indent

\* C23: every non-blank line of the input is part of the decoded value, or
\* decode fails.
C23_NoLineDropped ==
    \A shape \in LineShapes :
        (pc = "decoded" /\ doc = Text(LinesOf(shape)) /\ decOut.err = "") =>
            \A i \in 1..Len(shape) : LineKeys[i] \in KeysIn(decOut.v)

\* the same for the documents in which a more-indented line only follows a
\* key with an empty value
C23_NestedLinesKept ==
    \A shape \in LineShapes :
        (pc = "decoded" /\ doc = Text(LinesOf(shape)) /\ decOut.err = "" /\ WellNested(shape)) =>
            \A i \in 1..Len(shape) : LineKeys[i] \in KeysIn(decOut.v)

\* a line indented under a field with a scalar value is dropped in strict mode
C23_LineDropped ==
    /\ pc = "decoded" /\ decOpts.Strict
    /\ doc = Text(<<<<"p", ":", " ", "1">>, <<" ", " ", "q", ":", " ", "2">>>>)
    /\ decOut = Ok(VMap([k \in {<<"p">>} |-> VInt(1)]))

-----------------------------------------------------------------------------
(* The elements of a list array and its hyphen lines.                       *)

\* the hyphen lines of the shape at the element indentation, by number
ElementLines(shape) ==
    <<1>> \o SelectSeq([i \in 1..Len(shape.indents) |-> i + 1],
                       LAMBDA i : shape.indents[i - 1] = 2)

\* the element that hyphen line i gives
ElementOfLine(shape, i) ==
    IF i > 1 \/ shape.form = "scalar" THEN VInt(i)
    ELSE IF shape.form = "field" THEN VMap([k \in {<<"a">>} |-> VInt(1)])
    ELSE VMap([k \in {<<"a">>} |->
                 VSeq([j \in 1..DeeperRun(shape.indents) |-> VInt(j + 1)])])

IsHyphenDoc(shape) == pc = "decoded" /\ doc = Text(HyphenLines(shape))

\* C24: a list array decodes to one element for each hyphen line at the
\* element indentation, in the order of the lines; a deeper hyphen line is
\* no element of the outer array.
C24_OneElementPerHyphenLine ==
    \A shape \in HyphenShapes :
        (IsHyphenDoc(shape) /\ decOut.err = "") =>
            /\ isMap(decOut.v) /\ isList(Get(decOut.v, <<"l">>))
            /\ Get(decOut.v, <<"l">>).e =
                  [j \in 1..Len(ElementLines(shape)) |->
                      ElementOfLine(shape, ElementLines(shape)[j])]

\* the same for the arrays whose deeper hyphen lines all follow directly a
\* first line that opens a nested array
C24_NestedArrayLines ==
    \A shape \in HyphenShapes :
        (/\ IsHyphenDoc(shape) /\ decOut.err = ""
         /\ \A i \in 1..Len(shape.indents) :
               shape.indents[i] > 2 => (shape.form = "array" /\ i <= DeeperRun(shape.indents))) =>
            /\ isMap(decOut.v) /\ isList(Get(decOut.v, <<"l">>))
            /\ Get(decOut.v, <<"l">>).e =
                  [j \in 1..Len(ElementLines(shape)) |->
                      ElementOfLine(shape, ElementLines(shape)[j])]

\* a deeper hyphen line after a scalar element has become the second
\* element of the outer array
C24_DeeperLineIsElement ==
    /\ IsHyphenDoc([form |-> "scalar", indents |-> <<4>>, n |-> 2])
    /\ decOut = Ok(VMap([k \in {<<"l">>} |-> VSeq(<<VInt(1), VInt(2)>>)]))

-----------------------------------------------------------------------------
(* Keys through encode and decode.                                          *)

\* k matches [A-Za-z_][A-Za-z0-9_.]*
IsPlainKey(k) ==
    /\ k # <<>>
    /\ isLetter(k[1]) \/ k[1] = "_"
    /\ \A i \in 2..Len(k) : isLetter(k[i]) \/ isDigit(k[i]) \/ k[i] \in {"_", "."}

\* C25: a key is decoded as the key string that was encoded, wherever the
\* encoder wrote it, and it is written in quotes exactly when it does not
\* match [A-Za-z_][A-Za-z0-9_.]*.
C25_KeysRoundTrip ==
    \A place \in KeyPlaces, k \in RoundTripKeys :
        (pc = "decoded" /\ hostValue = KeyValue(place, k)) =>
            /\ decOut.err = ""
            /\ KeysIn(decOut.v) = KeysIn(hostValue)
            /\ Contains(doc, <<"\"">>) <=> ~IsPlainKey(k)

\* the same for the keys of object fields, of tabular columns and of the
\* later fields of an element
C25_KeysRoundTripOutsideFirstField ==
    \A place \in KeyPlaces \ {"firstfield"}, k \in RoundTripKeys :
        (pc = "decoded" /\ hostValue = KeyValue(place, k)) =>
            /\ decOut.err = ""
            /\ KeysIn(decOut.v) = KeysIn(hostValue)
            /\ Contains(doc, <<"\"">>) <=> ~IsPlainKey(k)

\* the quoted first field of an element is decoded with its quotes
C25_FirstFieldKeepsQuotes ==
    /\ pc = "decoded"
    /\ hostValue = KeyValue("firstfield", <<"a", " ", "b">>)
    /\ decOut.err = ""
    /\ KeysIn(decOut.v) = {<<"\"", "a", " ", "b", "\"">>}

-----------------------------------------------------------------------------
(* Encoding with the tab and the pipe delimiter, then decoding.             *)

\* scalars with and without a delimiter character in them
DelimScalars ==
    {VInt(1), VStr(<<"x", ",", "y">>), VStr(<<"x", "|", "y">>), VStr(<<"x", "\t", "y">>)}

\* sequences in inline form and in tabular form
DelimArrays ==
    {VSeq(<<x, y>>) : x \in DelimScalars, y \in DelimScalars}
    \cup {VSeq(<<VMap([k \in {<<"a">>, <<"b">>} |-> x]), VMap([k \in {<<"a">>, <<"b">>} |-> y])>>) :
             x \in DelimScalars, y \in DelimScalars}

\* the sequence at the root, as a field, as an element of a list array, and
\* as the first or a later field of an element of a list array
ArrayPlaces == {"root", "field", "element", "firstfield", "laterfield"}
PlaceArray(place, array) ==
    CASE place = "root" -> array
      [] place = "field" -> VMap([k \in {<<"l">>} |-> array])
      [] place = "element" -> VSeq(<<array, VInt(2)>>)
      [] place = "firstfield" -> VSeq(<<VMap([k \in {<<"l">>} |-> array]), VInt(2)>>)
      [] place = "laterfield" ->
            VSeq(<<VMap([k \in {<<"l">>, <<"z">>} |->
                            IF k = <<"z">> THEN array ELSE VInt(1)]), VInt(2)>>)

DelimitedArrays == {PlaceArray(place, array) : place \in ArrayPlaces, array \in DelimArrays}

\* a list array with an element that is a mapping without keys
EmptyElementArray == VMap([k \in {<<"l">>} |-> VSeq(<<VMap(EmptyMap), VInt(1)>>)])

DelimValues == DelimitedArrays \cup {EmptyElementArray}

InitDelim ==
    /\ pc = "start"
    /\ hostValue \in DelimValues
    /\ encOpts \in {[DefaultEncodeOptions EXCEPT !.Delimiter = d] : d \in {tab, pipe}}
    /\ decOpts = DefaultDecodeOptions
    /\ doc = <<>>
    /\ encOut = newWriter(encOpts.Indent)
    /\ decOut = Pending
    /\ sp = NoParser
    /\ normalized = Null
    /\ calls = NoCalls
    /\ pkg = PackageVars

SpecDelim == InitDelim /\ [][NextRT]_vars

\* C26: with the tab or the pipe as delimiter, decoding the text produced by
\* encoding v returns normalize(v).
C26_DelimiterRoundTrip ==
    (pc = "decoded" /\ encOpts.Delimiter \in {tab, pipe}) => decOut = Ok(normalize(hostValue))

\* the same for the sequences of scalars and of uniform mappings, with
\* strings that hold a comma, a pipe or a tab, in every place of a sequence
C26_DelimitedArraysRoundTrip ==
    (pc = "decoded" /\ encOpts.Delimiter \in {tab, pipe} /\ hostValue \in DelimitedArrays) =>
        decOut = Ok(normalize(hostValue))

\* the text of a list array with an empty mapping has one item line for two
\* declared elements, and decode fails on the length
C26_EmptyElementFails ==
    /\ pc = "decoded" /\ encOpts.Delimiter = pipe
    /\ hostValue = EmptyElementArray
    /\ doc = Text(<<<<"l", "[", "2", "|", "]", ":">>, <<" ", " ", "-", " ", "1">>>>)
    /\ decOut.err # ""

-----------------------------------------------------------------------------
(* Encoding with a length marker, then decoding.                            *)

\* prefixes that are no digits; validateEncodeOptions does not look at the
\* length marker, so the encoder accepts each of them
LengthMarkers == {<<"#">>, <<"$">>, <<"n", "=">>}

\* sequences in inline, tabular and list form, and without elements
MarkerArrays ==
    {VSeq(<<VInt(1), VInt(2)>>),
     VSeq(<<VMap([k \in {<<"a">>} |-> VInt(1)]), VMap([k \in {<<"a">>} |-> VInt(2)])>>),
     VSeq(<<VInt(1), VSeq(<<VInt(2)>>)>>),
     VSeq(<<>>)}

MarkerValues == {PlaceArray(place, array) : place \in ArrayPlaces, array \in MarkerArrays}

InitMarker ==
    /\ pc = "start"
    /\ hostValue \in MarkerValues
    /\ encOpts \in {[DefaultEncodeOptions EXCEPT !.LengthMarker = m] : m \in LengthMarkers}
    /\ decOpts = DefaultDecodeOptions
    /\ doc = <<>>
    /\ encOut = newWriter(encOpts.Indent)
    /\ decOut = Pending
    /\ sp = NoParser
    /\ normalized = Null
    /\ calls = NoCalls
    /\ pkg = PackageVars

SpecMarker == InitMarker /\ [][NextRT]_vars

\* C27: with a length marker that is no number, decoding the text produced
\* by encoding v returns normalize(v).
C27_LengthMarkerRoundTrip ==
    (pc = "decoded" /\ encOpts.LengthMarker \in LengthMarkers) =>
        decOut = Ok(normalize(hostValue))

\* the same for the marker "#"
C27_HashMarkerRoundTrip ==
    (pc = "decoded" /\ encOpts.LengthMarker = <<"#">>) => decOut = Ok(normalize(hostValue))

\* the header written with the marker "$" is not read as an array header
C27_DollarMarkerFails ==
    /\ pc = "decoded" /\ encOpts.LengthMarker = <<"$">>
    /\ hostValue = PlaceArray("field", VSeq(<<VInt(1), VInt(2)>>))
    /\ doc = <<"l", "[", "$", "2", "]", ":", " ", "1", ",", "2">>
    /\ decOut.err # ""

-----------------------------------------------------------------------------
(* Encoding with an indent size, then strict decoding with the same size.   *)

MaxIndentSize == 4
EncodeIndents == 1..MaxIndentSize

\* the values of the second field of an element of a list array
LaterFieldValues ==
    {VInt(2), VSeq(<<VInt(1), VInt(2)>>), VSeq(<<>>), VMap([k \in {<<"c">>} |-> VInt(1)]),
     VSeq(<<VMap([k \in {<<"c">>} |-> VInt(1)]), VInt(2)>>),
     VSeq(<<VMap([k \in {<<"c">>} |-> VInt(1)]), VMap([k \in {<<"c">>} |-> VInt(2)])>>)}

\* a list array whose first element is the mapping {a: 1, b: x}
ElementWithFields(x) ==
    VSeq(<<VMap([k \in {<<"a">>, <<"b">>} |-> IF k = <<"a">> THEN VInt(1) ELSE x]), VInt(3)>>)

\* a list array whose first element is the mapping {a: [1], b: x}; a is
\* written first, next to the hyphen
ElementWithArrays(x) ==
    VSeq(<<VMap([k \in {<<"a">>, <<"b">>} |-> IF k = <<"a">> THEN VSeq(<<VInt(1)>>) ELSE x]),
           VInt(3)>>)

WidthValues ==
    {PlaceArray(place, ElementWithFields(x)) : place \in ArrayPlaces, x \in LaterFieldValues}
    \cup {PlaceArray(place, ElementWithArrays(x)) :
             place \in {"root", "field"}, x \in LaterFieldValues}
    \cup {VMap([k \in {<<"a">>} |-> x]) : x \in LaterFieldValues}

InitWidth ==
    /\ pc = "start"
    /\ hostValue \in WidthValues
    /\ encOpts \in {[DefaultEncodeOptions EXCEPT !.Indent = n] : n \in EncodeIndents}
    /\ decOpts = [DefaultDecodeOptions EXCEPT !.Strict = TRUE, !.IndentSize = encOpts.Indent]
    /\ doc = <<>>
    /\ encOut = newWriter(encOpts.Indent)
    /\ decOut = Pending
    /\ sp = NoParser
    /\ normalized = Null
    /\ calls = NoCalls
    /\ pkg = PackageVars

SpecWidth == InitWidth /\ [][NextRT]_vars

\* the number of spaces each line of the text starts with
LineIndentsOf(text) ==
    {LeadingIn(Split(text, "\n")[i], {" "}) : i \in 1..Len(Split(text, "\n"))}

\* C28: each line of the text encoded with indent n starts with a multiple of
\* n spaces, and strict decoding with indentSize n raises no indentation
\* error.
C28_IndentMultiples ==
    /\ pc # "start" => \A d \in LineIndentsOf(doc) : d % encOpts.Indent = 0
    /\ pc = "decoded" => decOut.err # "indent"

\* the same for the indent sizes 1 and 2
C28_IndentMultiplesOfTwo ==
    encOpts.Indent \in {1, 2} =>
        /\ pc # "start" => \A d \in LineIndentsOf(doc) : d % encOpts.Indent = 0
        /\ pc = "decoded" => decOut.err # "indent"

\* with indent 4 the second field of an element starts at column 6, and
\* strict decoding rejects the text
C28_SecondFieldOffGrid ==
    /\ pc = "decoded" /\ encOpts.Indent = 4
    /\ hostValue = ElementWithFields(VInt(2))
    /\ 6 \in LineIndentsOf(doc)
    /\ decOut.err = "indent"

-----------------------------------------------------------------------------
(* The columns of the fields of a mapping that is a list-array element.     *)

\* the lines of the text that hold, after their indentation, the given start
LinesStarting(text, start) ==
    {i \in 1..Len(Split(text, "\n")) :
        HasPrefix(TrimLeftSet(Split(text, "\n")[i], {" "}), start)}

ColumnOf(text, i) == LeadingIn(Split(text, "\n")[i], {" "})

\* the pairs of keys that are the fields of one mapping of the values
FieldPairs ==
    {<<<<"a">>, <<"b">>>>, <<<<"b">>, <<"a">>>>, <<<<"l">>, <<"z">>>>, <<<<"z">>, <<"l">>>>}

\* in text, the field line of the second key, when it ends the key with one
\* of the characters in ends, is two columns right of the hyphen of the line
\* that holds the first key
AlignedAfterHyphen(text, pair, ends) ==
    \A h \in LinesStarting(text, listItemPrefix \o pair[1]) :
       \A e \in ends :
          \A i \in LinesStarting(text, pair[2] \o <<e>>) :
             ColumnOf(text, i) = ColumnOf(text, h) + 2

\* C29: the first field of an element that is a mapping is on the line of
\* the hyphen and every later field, whatever its value, starts two columns
\* right of the hyphen.
C29_LaterFieldsAligned ==
    pc # "start" => \A pair \in FieldPairs : AlignedAfterHyphen(doc, pair, {":", "["})

\* the same for the later fields with a scalar or a mapping as value
C29_ScalarAndMappingFieldsAligned ==
    pc # "start" => \A pair \in FieldPairs : AlignedAfterHyphen(doc, pair, {":"})

\* a later field that holds a sequence starts four columns right of the hyphen
C29_ArrayFieldShifted ==
    /\ pc = "encoded" /\ encOpts.Indent = 2
    /\ hostValue = ElementWithArrays(VSeq(<<VInt(1), VInt(2)>>))
    /\ doc = Text(<<<<"[", "2", "]", ":">>,
                    <<" ", " ", "-", " ", "a", "[", "1", "]", ":", " ", "1">>,
                    <<" ", " ", " ", " ", " ", " ", "b", "[", "2", "]", ":", " ", "1", ",", "2">>,
                    <<" ", " ", "-", " ", "3">>>>)

-----------------------------------------------------------------------------
(* The line cursor of the decoder.  The documents are those in which each   *)
(* line holds its own number, so that the lines a call has parsed are the   *)
(* lines whose numbers are in the value it returns.                         *)

\* the numbers in v
RECURSIVE IntsIn(_)
IntsIn(v) ==
    IF v.t = "int" THEN {v.n}
    ELSE IF isMap(v) THEN UNION {IntsIn(Values(v)[k]) : k \in DOMAIN Values(v)}
    ELSE IF isList(v) THEN UNION {IntsIn(v.e[i]) : i \in 1..Len(v.e)}
    ELSE {}

NumberedDocs == LineDocs \cup HyphenDocs \cup TableDocs

\* the 0-based index of the line that holds the number i
LineOfNumber(text, i) == IF text \in LineDocs THEN i - 1 ELSE i

\* one iteration of the loop of parseObject on the field at line p leaves
\* the cursor, before its sp.pos++, at p or later and on or after every line
\* the field's value was parsed from
FieldKeepsCursor(text, lines, p, opts) ==
    Bind(handleObjectKeyValuePair(lines, p, opts, At(lines, p), At(lines, p).indent, EmptyMap),
         LAMBDA r : r.err = "" =>
                       /\ r.pos >= p
                       /\ \A i \in IntsIn(VMap(r.m)) : r.pos >= LineOfNumber(text, i))

\* one iteration of the loop of parseListArray on the hyphen line p leaves
\* the cursor after p and after every line the element was parsed from
ItemAdvancesCursor(text, lines, p, opts) ==
    Bind(parseListArrayItem(lines, p, opts, At(lines, p), 0, <<>>),
         LAMBDA r : r.err = "" =>
                       /\ r.pos > p
                       /\ \A i \in IntsIn(r.v) : r.pos > LineOfNumber(text, i))

CursorAdvances(text, opts) ==
    Bind(preprocessLines(text),
         LAMBDA lines :
            \A p \in 0..(Len(lines) - 1) :
               IF At(lines, p).isBlank THEN TRUE
               ELSE IF HasPrefix(At(lines, p).content, <<"-">>)
               THEN ItemAdvancesCursor(text, lines, p, opts)
               ELSE FieldKeepsCursor(text, lines, p, opts))

\* C30: decode returns on every input, and in the loops over the lines of a
\* mapping, of a list array, of the rows of a tabular array and of a list
\* item, each iteration moves the cursor forward and never leaves it before
\* a line that a nested value or an array body was parsed from.
C30_DecodeTerminates ==
    /\ pc = "decoded" => decOut # Pending
    /\ doc \in NumberedDocs => CursorAdvances(doc, decOpts)

\* the rows of a tabular array were parsed, the cursor stepped back onto the
\* last row, and the field after the rows was parsed next
C30_Witness ==
    /\ pc = "decoded"
    /\ doc = Text(TableLines([n |-> 2, rows |-> 2, trailing |-> TRUE]))
    /\ decOut.err = ""
    /\ Get(decOut.v, <<"z">>) = VStr(<<"x">>)
    /\ Get(decOut.v, <<"l">>) = VSeq(<<VMap([k \in {<<"a">>} |-> VInt(1)]),
                                       VMap([k \in {<<"a">>} |-> VInt(2)])>>)

====
